---- MODULE Spec2Model ----
(***************************************************************************)
(* NatureScope: ensemble pre-classification and provider routing.          *)
(* Model of backend/classifier.py, backend/pytorch_identifier.py,          *)
(* backend/backend.py and the legacy MJLHackathon2026 classifier.          *)
(***************************************************************************)
EXTENDS Integers, Sequences, FiniteSets, TLC

\* ------------------------------------------------------------------------
\* Python values
\* ------------------------------------------------------------------------
\* Python None where a dict is expected (Optional[Dict]); also the empty dict.
None == <<>>
\* Python None in a string-valued field.
NoneStr == "<None>"
\* Python None in a number-valued field.
NoneNum == 0 - 1

\* Python truthiness of a string-or-None value.
Truthy(s) == s # NoneStr /\ s # ""
\* Python `a or b` on string-or-None values.
PyOr(a, b) == IF Truthy(a) THEN a ELSE b
\* Python truthiness of a dict-or-None value.
TruthyDict(d) == DOMAIN d # {}

\* ------------------------------------------------------------------------
\* Bounds
\* ------------------------------------------------------------------------
MaxLabels == 2

\* ------------------------------------------------------------------------
\* Text: the characters of the strings the model uses
\* ------------------------------------------------------------------------
Chars(s) ==
    CASE s = "Rose" -> <<"R","o","s","e">>
      [] s = "Golden Retriever" -> <<"G","o","l","d","e","n"," ","R","e","t","r","i","e","v","e","r">>
      [] s = "Bird" -> <<"B","i","r","d">>
      [] s = "Orchid" -> <<"O","r","c","h","i","d">>
      [] s = "Dog (animal)" -> <<"D","o","g"," ","(","a","n","i","m","a","l",")">>
      [] s = "Rosa chinensis" -> <<"R","o","s","a"," ","c","h","i","n","e","n","s","i","s">>
      [] s = "China rose" -> <<"C","h","i","n","a"," ","r","o","s","e">>
      [] s = "plant" -> <<"p","l","a","n","t">>
      [] s = "flower" -> <<"f","l","o","w","e","r">>
      [] s = "tree" -> <<"t","r","e","e">>
      [] s = "leaf" -> <<"l","e","a","f">>
      [] s = "fern" -> <<"f","e","r","n">>
      [] s = "moss" -> <<"m","o","s","s">>
      [] s = "fungus" -> <<"f","u","n","g","u","s">>
      [] s = "mushroom" -> <<"m","u","s","h","r","o","o","m">>
      [] s = "bloom" -> <<"b","l","o","o","m">>
      [] s = "rose" -> <<"r","o","s","e">>
      [] s = "orchid" -> <<"o","r","c","h","i","d">>
      [] s = "bird" -> <<"b","i","r","d">>
      [] s = "animal" -> <<"a","n","i","m","a","l">>
      [] s = "mammal" -> <<"m","a","m","m","a","l">>
      [] s = "insect" -> <<"i","n","s","e","c","t">>
      [] s = "organism" -> <<"o","r","g","a","n","i","s","m">>
      [] s = "vertebrate" -> <<"v","e","r","t","e","b","r","a","t","e">>
      [] s = "wildlife" -> <<"w","i","l","d","l","i","f","e">>
      [] s = "beak" -> <<"b","e","a","k">>
      [] s = "feather" -> <<"f","e","a","t","h","e","r">>
      [] s = "nature" -> <<"n","a","t","u","r","e">>
      [] s = "daisy" -> <<"d","a","i","s","y">>
      [] s = "leaf beetle" -> <<"l","e","a","f"," ","b","e","e","t","l","e">>
      [] s = "cabbage butterfly" -> <<"c","a","b","b","a","g","e"," ","b","u","t","t","e","r","f","l","y">>
      [] s = "bee" -> <<"b","e","e">>
      [] s = "golden retriever" -> <<"g","o","l","d","e","n"," ","r","e","t","r","i","e","v","e","r">>
      [] s = "unknown" -> <<"u","n","k","n","o","w","n">>
      [] s = "leaves" -> <<"l","e","a","v","e","s">>
      [] s = "blossom" -> <<"b","l","o","s","s","o","m">>
      [] s = "petal" -> <<"p","e","t","a","l">>
      [] s = "vegetable" -> <<"v","e","g","e","t","a","b","l","e">>
      [] s = "fruit" -> <<"f","r","u","i","t">>
      [] s = "shrub" -> <<"s","h","r","u","b">>
      [] s = "bush" -> <<"b","u","s","h">>
      [] s = "herb" -> <<"h","e","r","b">>
      [] s = "succulent" -> <<"s","u","c","c","u","l","e","n","t">>
      [] s = "cactus" -> <<"c","a","c","t","u","s">>
      [] s = "seaweed" -> <<"s","e","a","w","e","e","d">>
      [] s = "grass" -> <<"g","r","a","s","s">>
      [] s = "grain" -> <<"g","r","a","i","n">>
      [] s = "cereal" -> <<"c","e","r","e","a","l">>
      [] s = "legume" -> <<"l","e","g","u","m","e">>
      [] s = "tulip" -> <<"t","u","l","i","p">>
      [] s = "sunflower" -> <<"s","u","n","f","l","o","w","e","r">>
      [] s = "lily" -> <<"l","i","l","y">>
      [] s = "iris" -> <<"i","r","i","s">>
      [] s = "lotus" -> <<"l","o","t","u","s">>
      [] s = "cabbage" -> <<"c","a","b","b","a","g","e">>
      [] s = "carrot" -> <<"c","a","r","r","o","t">>
      [] s = "potato" -> <<"p","o","t","a","t","o">>
      [] s = "tomato" -> <<"t","o","m","a","t","o">>
      [] s = "lettuce" -> <<"l","e","t","t","u","c","e">>
      [] s = "spinach" -> <<"s","p","i","n","a","c","h">>
      [] s = "broccoli" -> <<"b","r","o","c","c","o","l","i">>
      [] s = "banana" -> <<"b","a","n","a","n","a">>
      [] s = "apple" -> <<"a","p","p","l","e">>
      [] s = "orange" -> <<"o","r","a","n","g","e">>
      [] s = "grape" -> <<"g","r","a","p","e">>
      [] s = "strawberry" -> <<"s","t","r","a","w","b","e","r","r","y">>
      [] s = "blueberry" -> <<"b","l","u","e","b","e","r","r","y">>
      [] s = "raspberry" -> <<"r","a","s","p","b","e","r","r","y">>
      [] s = "corn" -> <<"c","o","r","n">>
      [] s = "wheat" -> <<"w","h","e","a","t">>
      [] s = "rice" -> <<"r","i","c","e">>
      [] s = "barley" -> <<"b","a","r","l","e","y">>
      [] s = "oats" -> <<"o","a","t","s">>
      [] s = "pine" -> <<"p","i","n","e">>
      [] s = "oak" -> <<"o","a","k">>
      [] s = "maple" -> <<"m","a","p","l","e">>
      [] s = "birch" -> <<"b","i","r","c","h">>
      [] s = "palm" -> <<"p","a","l","m">>
      [] s = "bamboo" -> <<"b","a","m","b","o","o">>
      [] s = "willow" -> <<"w","i","l","l","o","w">>
      [] s = "spruce" -> <<"s","p","r","u","c","e">>
      [] s = "elm" -> <<"e","l","m">>
      [] s = "ash" -> <<"a","s","h">>
      [] s = "beech" -> <<"b","e","e","c","h">>
      [] s = "ivy" -> <<"i","v","y">>
      [] s = "vine" -> <<"v","i","n","e">>
      [] s = "climbing" -> <<"c","l","i","m","b","i","n","g">>
      [] s = "weed" -> <<"w","e","e","d">>
      [] s = "lichen" -> <<"l","i","c","h","e","n">>
      [] s = "toadstool" -> <<"t","o","a","d","s","t","o","o","l">>
      [] s = "dog" -> <<"d","o","g">>
      [] s = "cat" -> <<"c","a","t">>
      [] s = "fish" -> <<"f","i","s","h">>
      [] s = "horse" -> <<"h","o","r","s","e">>
      [] s = "cow" -> <<"c","o","w">>
      [] s = "sheep" -> <<"s","h","e","e","p">>
      [] s = "pig" -> <<"p","i","g">>
      [] s = "monkey" -> <<"m","o","n","k","e","y">>
      [] s = "bear" -> <<"b","e","a","r">>
      [] s = "lion" -> <<"l","i","o","n">>
      [] s = "tiger" -> <<"t","i","g","e","r">>
      [] s = "snake" -> <<"s","n","a","k","e">>
      [] s = "lizard" -> <<"l","i","z","a","r","d">>
      [] s = "frog" -> <<"f","r","o","g">>
      [] s = "turtle" -> <<"t","u","r","t","l","e">>
      [] s = "beetle" -> <<"b","e","e","t","l","e">>
      [] s = "butterfly" -> <<"b","u","t","t","e","r","f","l","y">>
      [] s = "ant" -> <<"a","n","t">>
      [] s = "puppy" -> <<"p","u","p","p","y">>
      [] s = "kitten" -> <<"k","i","t","t","e","n">>
      [] s = "spider" -> <<"s","p","i","d","e","r">>
      [] s = "squirrel" -> <<"s","q","u","i","r","r","e","l">>
      [] s = "rabbit" -> <<"r","a","b","b","i","t">>
      [] s = "deer" -> <<"d","e","e","r">>
      [] s = "wolf" -> <<"w","o","l","f">>
      [] s = "fox" -> <<"f","o","x">>
      [] s = "whale" -> <<"w","h","a","l","e">>
      [] s = "dolphin" -> <<"d","o","l","p","h","i","n">>
      [] s = "shark" -> <<"s","h","a","r","k">>
      [] s = "eagle" -> <<"e","a","g","l","e">>
      [] s = "owl" -> <<"o","w","l">>
      [] s = "duck" -> <<"d","u","c","k">>
      [] s = "goose" -> <<"g","o","o","s","e">>
      [] s = "penguin" -> <<"p","e","n","g","u","i","n">>
      [] s = "zebra" -> <<"z","e","b","r","a">>
      [] s = "giraffe" -> <<"g","i","r","a","f","f","e">>
      [] s = "elephant" -> <<"e","l","e","p","h","a","n","t">>
      [] s = "rhinoceros" -> <<"r","h","i","n","o","c","e","r","o","s">>
      [] s = "hippopotamus" -> <<"h","i","p","p","o","p","o","t","a","m","u","s">>
      [] s = "otter" -> <<"o","t","t","e","r">>
      [] s = "seal" -> <<"s","e","a","l">>
      [] s = "dragonfly" -> <<"d","r","a","g","o","n","f","l","y">>
      [] s = "cricket" -> <<"c","r","i","c","k","e","t">>
      [] s = "grasshopper" -> <<"g","r","a","s","s","h","o","p","p","e","r">>
      [] s = "moth" -> <<"m","o","t","h">>
      [] s = "wasp" -> <<"w","a","s","p">>
      [] s = "fly" -> <<"f","l","y">>
      [] s = "mosquito" -> <<"m","o","s","q","u","i","t","o">>
      [] s = "termite" -> <<"t","e","r","m","i","t","e">>
      [] s = "snail" -> <<"s","n","a","i","l">>
      [] s = "crab" -> <<"c","r","a","b">>
      [] s = "lobster" -> <<"l","o","b","s","t","e","r">>
      [] s = "shrimp" -> <<"s","h","r","i","m","p">>
      [] s = "scorpion" -> <<"s","c","o","r","p","i","o","n">>
      [] s = "worm" -> <<"w","o","r","m">>
      [] s = "" -> <<>>

\* str.lower() on one character (the upper-case letters the texts use).
LowerChar(c) ==
    CASE c = "R" -> "r"
      [] c = "G" -> "g"
      [] c = "B" -> "b"
      [] c = "O" -> "o"
      [] c = "D" -> "d"
      [] c = "C" -> "c"
      [] OTHER -> c

\* str.lower()
Lower(cs) == [i \in 1..Len(cs) |-> LowerChar(cs[i])]

\* Python `k in txt` on strings: k is a contiguous substring of txt.
Contains(txt, k) ==
    \E i \in 0..(Len(txt) - Len(k)) : SubSeq(txt, i + 1, i + Len(k)) = k

\* Python seq[:n]
Take(seq, n) == IF Len(seq) <= n THEN seq ELSE SubSeq(seq, 1, n)

\* Python `x in list`
InList(x, seq) == \E i \in 1..Len(seq) : seq[i] = x

\* generic_stopwords (classifier.py:159)
generic_stopwords ==
    {"bird", "animal", "plant", "flower", "tree", "mammal", "insect",
     "organism", "vertebrate", "wildlife", "beak", "feather", "nature"}

\* plant_keywords (classifier.py:192)
plant_keywords ==
    {"plant", "flower", "tree", "leaf", "fern", "moss", "fungus", "mushroom",
     "bloom", "rose", "orchid"}

\* [c for c in candidates if c and c.lower() not in generic_stopwords]
RECURSIVE SpecificCandidates(_)
SpecificCandidates(seq) ==
    IF seq = <<>> THEN <<>>
    ELSE LET c == Head(seq)
             rest == SpecificCandidates(Tail(seq))
         IN  IF Truthy(c) /\ Lower(Chars(c)) \notin { Chars(w) : w \in generic_stopwords }
             THEN <<c>> \o rest
             ELSE rest

\* [c for c in candidates if c not in specific_candidates]
RECURSIVE NotInList(_, _)
NotInList(seq, other) ==
    IF seq = <<>> THEN <<>>
    ELSE LET rest == NotInList(Tail(seq), other)
         IN  IF InList(Head(seq), other) THEN rest ELSE <<Head(seq)>> \o rest

\* candidates from the top labels, specific ones first (classifier.py:158-161)
LabelCandidates(labels) ==
    LET descs == [i \in 1..Len(Take(labels, 5)) |-> labels[i].description]
        specific == SpecificCandidates(descs)
    IN  specific \o NotInList(descs, specific)

\* candidates extended by the web best guess and the first web entities
\* (classifier.py:164-178); a raising web detection leaves them as they are
RECURSIVE AppendNew(_, _)
AppendNew(cands, extra) ==
    IF extra = <<>> THEN cands
    ELSE LET e == Head(extra)
         IN  AppendNew(IF Truthy(e) /\ ~InList(e, cands) THEN Append(cands, e) ELSE cands,
                       Tail(extra))

WebCandidates(cands, web) ==
    IF web.kind = "raise" THEN cands
    ELSE AppendNew(AppendNew(cands, Take(web.best_guess_labels, 1)),
                   Take(web.web_entities, 5))

\* any_plant testing the top candidate only
any_plant_TopOnly(cands) ==
    /\ cands # <<>>
    /\ Truthy(cands[1])
    /\ \E k \in plant_keywords : Contains(Lower(Chars(cands[1])), Chars(k))

\* any_plant (classifier.py:193)
any_plant(cands) ==
    \E i \in 1..Len(cands) :
        /\ Truthy(cands[i])
        /\ \E k \in plant_keywords : Contains(Lower(Chars(cands[i])), Chars(k))

\* ------------------------------------------------------------------------
\* Plant-specialist adapter
\* ------------------------------------------------------------------------
\* What requests.post to PlantNet can produce: an exception, a non-200
\* status, or a 200 whose JSON has a (possibly empty) result list.
PlantNetTops ==
    { [species |-> [scientificName |-> "Rosa chinensis", commonNames |-> <<"China rose">>],
       probability |-> 90, score |-> NoneNum, speciesName |-> NoneStr, suggested_common_name |-> NoneStr],
      [species |-> [scientificName |-> NoneStr, commonNames |-> <<"China rose">>],
       probability |-> 90, score |-> NoneNum, speciesName |-> NoneStr, suggested_common_name |-> NoneStr],
      [species |-> [scientificName |-> NoneStr, commonNames |-> <<>>],
       probability |-> NoneNum, score |-> 40, speciesName |-> NoneStr, suggested_common_name |-> NoneStr],
      [species |-> [scientificName |-> NoneStr, commonNames |-> <<>>],
       probability |-> 70, score |-> NoneNum, speciesName |-> "Rosa", suggested_common_name |-> NoneStr] }

PlantNetResponses ==
    { [kind |-> "raise"],
      [kind |-> "http", status_code |-> 500, results |-> <<>>],
      [kind |-> "http", status_code |-> 200, results |-> <<>>] }
    \cup { [kind |-> "http", status_code |-> 200, results |-> <<t>>] : t \in PlantNetTops }

\* Python `a or b` on number-or-None values (0 is falsy).
PyOrNum(a, b) == IF a # NoneNum /\ a # 0 THEN a ELSE b

\* _try_plantnet: api_key is os.environ.get('PLANTNET_API_KEY'), resp the
\* outcome of the HTTP call (not made when the key is missing).
TryPlantnet_CommonFirst(api_key, resp) ==
    IF ~Truthy(api_key) THEN None
    ELSE IF resp.kind = "raise" THEN None
    ELSE IF resp.status_code # 200 THEN None
    ELSE IF resp.results = <<>> THEN None
    ELSE LET top == resp.results[1]
             species == top.species
             probability == PyOrNum(PyOrNum(top.probability, top.score), 0)
             scientific == species.scientificName
             common == IF species.commonNames # <<>> THEN species.commonNames[1]
                       ELSE NoneStr
             label == PyOr(PyOr(PyOr(common, scientific), top.speciesName),
                           top.suggested_common_name)
             base == [label |-> label, confidence |-> probability,
                      source |-> "plantnet", error |-> NoneStr,
                      raw |-> [results |-> resp.results]]
             details == (IF Truthy(scientific) THEN "scientific_name" :> scientific ELSE <<>>)
                        @@ (IF Truthy(common) THEN "common_name" :> common ELSE <<>>)
         IN  IF DOMAIN details # {} THEN ("additional_details" :> details) @@ base
             ELSE base

TryPlantnet(api_key, resp) ==
    IF ~Truthy(api_key) THEN None
    ELSE IF resp.kind = "raise" THEN None
    ELSE IF resp.status_code # 200 THEN None
    ELSE IF resp.results = <<>> THEN None
    ELSE LET top == resp.results[1]
             species == top.species
             probability == PyOrNum(PyOrNum(top.probability, top.score), 0)
             scientific == species.scientificName
             common == IF species.commonNames # <<>> THEN species.commonNames[1]
                       ELSE NoneStr
             label == PyOr(PyOr(PyOr(scientific, common), top.speciesName),
                           top.suggested_common_name)
             base == [label |-> label, confidence |-> probability,
                      source |-> "plantnet", error |-> NoneStr,
                      raw |-> [results |-> resp.results]]
             details == (IF Truthy(scientific) THEN "scientific_name" :> scientific ELSE <<>>)
                        @@ (IF Truthy(common) THEN "common_name" :> common ELSE <<>>)
         IN  IF DOMAIN details # {} THEN ("additional_details" :> details) @@ base
             ELSE base

\* ------------------------------------------------------------------------
\* General-purpose provider: auxiliary details and the re-route merge
\* ------------------------------------------------------------------------
\* _get_additional_vision_details: aux is what the three detections found
\* (a raise anywhere yields the empty dict).
DetailKeys == {"dominant_colors", "detected_text", "detected_objects"}

AuxOutcomes ==
    { [kind |-> "raise", found |-> {}] }
    \cup { [kind |-> "ok", found |-> f] : f \in {{}, {"dominant_colors", "detected_text"}, DetailKeys} }

GetAdditionalVisionDetails(aux) ==
    IF aux.kind = "raise" THEN None
    ELSE [k \in aux.found |->
            CASE k = "dominant_colors" -> <<[hex |-> "#228b22", pixel_fraction |-> 40, score |-> 60]>>
              [] k = "detected_text" -> "text"
              [] k = "detected_objects" -> <<[name |-> "Flower", score |-> 80]>>]

\* dict.update
DictUpdate(d, u) == u @@ d

\* classifier.py:196-203: the PlantNet result returned by the re-route, with
\* the general provider's details merged in under the condition the code tests.
MergeReroute(plantnet_result, additional_details) ==
    IF "additional_details" \in DOMAIN additional_details
    THEN LET cur == IF "additional_details" \in DOMAIN plantnet_result
                    THEN plantnet_result.additional_details ELSE None
         IN  ("additional_details" :> DictUpdate(cur, additional_details)) @@ plantnet_result
    ELSE plantnet_result

\* ------------------------------------------------------------------------
\* Enrichment lookup and merge
\* ------------------------------------------------------------------------
\* What the encyclopedia answers for one candidate: an exception, a non-200
\* search, a search result list, and for its first hit the page's Wikidata
\* item and that item's taxon name (P225).
WikiLookups ==
    { [kind |-> "raise"],
      [kind |-> "http", status_code |-> 200, search |-> <<>>,
       wikibase_item |-> NoneStr, P225 |-> NoneStr],
      [kind |-> "http", status_code |-> 200, search |-> <<"Bird">>,
       wikibase_item |-> NoneStr, P225 |-> NoneStr],
      [kind |-> "http", status_code |-> 200, search |-> <<"Golden Retriever">>,
       wikibase_item |-> "Q38686", P225 |-> NoneStr],
      [kind |-> "http", status_code |-> 200, search |-> <<"Rose">>,
       wikibase_item |-> "Q34687", P225 |-> "Rosa"] }

\* str.replace(' ', '_')
ReplaceSpaces(cs) == [i \in 1..Len(cs) |-> IF cs[i] = " " THEN "_" ELSE cs[i]]

\* _enrich_with_wikipedia
EnrichWithWikipedia(label, lk) ==
    IF lk.kind = "raise" THEN None
    ELSE IF lk.status_code # 200 THEN None
    ELSE IF lk.search = <<>> THEN None
    ELSE LET page_title == lk.search[1]
             wikibase_id == lk.wikibase_item
             scientific_name == IF Truthy(wikibase_id) THEN lk.P225 ELSE NoneStr
         IN  [page_title |-> page_title,
              summary |-> "extract",
              wikidata_id |-> wikibase_id,
              scientific_name |-> scientific_name,
              wikipedia_url |-> <<"https://en.wikipedia.org/wiki/",
                                  ReplaceSpaces(Chars(page_title))>>]

\* The fallback that keeps the latest successful lookup.
ScanStep_KeepLast(chosen, enrich) ==
    IF ~TruthyDict(enrich) THEN [chosen |-> chosen, stop |-> FALSE]
    ELSE IF Truthy(enrich.scientific_name) THEN [chosen |-> enrich, stop |-> TRUE]
    ELSE IF /\ Truthy(enrich.page_title)
            /\ \/ Contains(Chars(enrich.page_title), <<" ">>)
               \/ Contains(Chars(enrich.page_title), <<"(">>)
         THEN [chosen |-> enrich, stop |-> TRUE]
    ELSE [chosen |-> enrich, stop |-> FALSE]

\* One iteration of the candidate loop (classifier.py:208-221) on what
\* _enrich_with_wikipedia returned: the new chosen_enrichment and whether
\* the loop breaks.
ScanStep(chosen, enrich) ==
    IF ~TruthyDict(enrich) THEN [chosen |-> chosen, stop |-> FALSE]
    ELSE IF Truthy(enrich.scientific_name) THEN [chosen |-> enrich, stop |-> TRUE]
    ELSE IF /\ Truthy(enrich.page_title)
            /\ \/ Contains(Chars(enrich.page_title), <<" ">>)
               \/ Contains(Chars(enrich.page_title), <<"(">>)
         THEN [chosen |-> enrich, stop |-> TRUE]
    ELSE [chosen |-> IF ~TruthyDict(chosen) THEN enrich ELSE chosen, stop |-> FALSE]

\* The candidate scan (classifier.py:206-223): lks[i] is the encyclopedia's
\* answer for candidates[i]; returns the chosen enrichment and the number of
\* candidates looked up.
RECURSIVE ScanEnrichment(_, _, _, _)
ScanEnrichment(cands, lks, i, chosen) ==
    IF i > Len(cands) THEN [chosen |-> chosen, looked |-> Len(cands)]
    ELSE LET s == ScanStep(chosen, EnrichWithWikipedia(cands[i], lks[i]))
         IN  IF s.stop THEN [chosen |-> s.chosen, looked |-> i]
             ELSE ScanEnrichment(cands, lks, i + 1, s.chosen)

\* the merge that prefers the page title to the scientific name
ApplyEnrichment_TitleFirst(res, chosen) ==
    IF ~TruthyDict(chosen) THEN res
    ELSE LET sci == chosen.scientific_name
             title == chosen.page_title
             label == IF Truthy(title) THEN title
                      ELSE IF Truthy(sci) THEN sci
                      ELSE res.label
         IN  ("enrichment" :> chosen) @@
             [res EXCEPT !.label = label, !.source = "google_vision + wikipedia"]

\* the merge that records the enrichment although none was chosen
ApplyEnrichment_AlwaysRecord(res, chosen) ==
    IF ~TruthyDict(chosen)
    THEN ("enrichment" :> chosen) @@ [res EXCEPT !.source = "google_vision + wikipedia"]
    ELSE LET sci == chosen.scientific_name
             title == chosen.page_title
             label == IF Truthy(sci)
                      THEN (IF Truthy(title) THEN sci \o " (" \o title \o ")" ELSE sci)
                      ELSE IF Truthy(title) THEN title
                      ELSE res.label
         IN  ("enrichment" :> chosen) @@
             [res EXCEPT !.label = label, !.source = "google_vision + wikipedia"]

\* classifier.py:225-234
ApplyEnrichment(res, chosen) ==
    IF ~TruthyDict(chosen) THEN res
    ELSE LET sci == chosen.scientific_name
             title == chosen.page_title
             label == IF Truthy(sci)
                      THEN (IF Truthy(title) THEN sci \o " (" \o title \o ")" ELSE sci)
                      ELSE IF Truthy(title) THEN title
                      ELSE res.label
         IN  ("enrichment" :> chosen) @@
             [res EXCEPT !.label = label, !.source = "google_vision + wikipedia"]

\* ------------------------------------------------------------------------
\* Ensemble (pytorch_identifier.py)
\* ------------------------------------------------------------------------
\* The ensemble's models in the order _get_model_bundle inserts them.
ModelOrder == <<"resnet50", "efficientnet_b2", "vit_b_16">>
ModelNames == {"resnet50", "efficientnet_b2", "vit_b_16"}

\* Which models' weights load: none, only the first, all.
LoadOutcomes == { {}, {"resnet50"}, ModelNames }

\* Keyword tiers of the category scorer (pytorch_identifier.py:29-61).
PLANT_KEYWORDS_PRIMARY ==
    {"plant", "flower", "tree", "leaf", "leaves", "blossom", "petal",
     "vegetable", "fruit", "shrub", "bush", "herb", "succulent", "cactus",
     "fern", "moss", "seaweed", "grass", "grain", "cereal", "legume"}

PLANT_KEYWORDS_SECONDARY ==
    {"orchid", "rose", "daisy", "tulip", "sunflower", "lily", "iris",
     "lotus", "cabbage", "carrot", "potato", "tomato", "lettuce", "spinach",
     "broccoli", "banana", "apple", "orange", "grape", "strawberry",
     "blueberry", "raspberry", "corn", "wheat", "rice", "barley", "oats",
     "pine", "oak", "maple", "birch", "palm", "bamboo", "willow", "spruce",
     "elm", "ash", "beech", "ivy", "vine", "climbing", "weed", "lichen",
     "fungus", "mushroom", "toadstool"}

ANIMAL_KEYWORDS_PRIMARY ==
    {"dog", "cat", "bird", "fish", "mammal", "insect", "animal", "horse",
     "cow", "sheep", "pig", "monkey", "bear", "lion", "tiger", "snake",
     "lizard", "frog", "turtle", "beetle", "butterfly", "ant", "bee"}

ANIMAL_KEYWORDS_SECONDARY ==
    {"puppy", "kitten", "spider", "squirrel", "rabbit", "deer", "wolf",
     "fox", "whale", "dolphin", "shark", "eagle", "owl", "duck", "goose",
     "penguin", "zebra", "giraffe", "elephant", "rhinoceros",
     "hippopotamus", "otter", "seal", "dragonfly", "cricket", "grasshopper",
     "moth", "wasp", "fly", "mosquito", "termite", "snail", "crab",
     "lobster", "shrimp", "scorpion", "worm"}

\* any(k in txt for k in keywords)
AnyKeywordIn(txt, keywords) == \E k \in keywords : Contains(txt, Chars(k))

\* Numbers of the scorer.  A probability is a whole number of hundredths,
\* rank_weight = 1.0 - rank * 0.2 a whole number of fifths, and the tier
\* weights 1.5 and 1.0 whole numbers of halves; a score is then a whole
\* number of thousandths: prob/100 * rank_weight/5 * tier/2.
\* a rank weight that falls below zero (1.0 - rank * 0.6)
rank_weight_Steep(rank) == 5 - 3 * rank

rank_weight(rank) == 5 - rank
TierPrimary == 3
TierSecondary == 2

\* What one prediction adds to a category's score (lines 181-184, 186-189):
\* the primary tier, elif the secondary tier, else nothing.
TierScore(txt, prob, rank, primary, secondary) ==
    IF AnyKeywordIn(txt, primary) THEN prob * rank_weight(rank) * TierPrimary
    ELSE IF AnyKeywordIn(txt, secondary) THEN prob * rank_weight(rank) * TierSecondary
    ELSE 0

\* The scorer that adds both tiers when both match.
RECURSIVE ScoreTopK_BothTiers(_, _)
ScoreTopK_BothTiers(preds, rank) ==
    IF rank >= Len(preds) THEN <<0, 0>>
    ELSE LET txt == Lower(Chars(preds[rank + 1].label))
             prob == preds[rank + 1].probability
             w == prob * rank_weight(rank)
             rest == ScoreTopK_BothTiers(preds, rank + 1)
             both(primary, secondary) ==
                 (IF AnyKeywordIn(txt, primary) THEN w * TierPrimary ELSE 0)
                 + (IF AnyKeywordIn(txt, secondary) THEN w * TierSecondary ELSE 0)
         IN  <<both(PLANT_KEYWORDS_PRIMARY, PLANT_KEYWORDS_SECONDARY) + rest[1],
               both(ANIMAL_KEYWORDS_PRIMARY, ANIMAL_KEYWORDS_SECONDARY) + rest[2]>>

\* The scoring loop over one model's top-k list (lines 164-189), from the
\* given rank on: <<plant_score, animal_score>>.
RECURSIVE ScoreTopK(_, _)
ScoreTopK(preds, rank) ==
    IF rank >= Len(preds) THEN <<0, 0>>
    ELSE LET txt == Lower(Chars(preds[rank + 1].label))
             prob == preds[rank + 1].probability
             rest == ScoreTopK(preds, rank + 1)
         IN  <<TierScore(txt, prob, rank, PLANT_KEYWORDS_PRIMARY,
                         PLANT_KEYWORDS_SECONDARY) + rest[1],
               TierScore(txt, prob, rank, ANIMAL_KEYWORDS_PRIMARY,
                         ANIMAL_KEYWORDS_SECONDARY) + rest[2]>>

\* Top-k lists (k = 5, line 159) a model can produce: the labels come from
\* the shared vocabulary ("unknown" stands in for an index out of range,
\* line 168), the probabilities are the softmax values in descending order.
topk == 5
TopProbs == <<40, 25, 15, 12, 8>>
KeywordLabels == {"daisy", "leaf beetle", "cabbage butterfly", "bee"}
NeutralLabel == "golden retriever"

\* The list with the given label at the given rank and the neutral label
\* at the other ranks.
OneKeywordList(label, rank) ==
    [i \in 1..topk |->
        [label |-> IF i = rank + 1 THEN label ELSE NeutralLabel,
         probability |-> TopProbs[i]]]

TopKLists ==
    { OneKeywordList(l, r) : l \in KeywordLabels, r \in 0..(topk - 1) }
    \cup { OneKeywordList(NeutralLabel, 0),
           [i \in 1..topk |-> [label |-> "unknown", probability |-> TopProbs[i]]],
           [i \in 1..topk |->
               [label |-> <<"bee", "daisy", "leaf beetle", "cabbage butterfly",
                            "golden retriever">>[i],
                probability |-> <<100, 0, 0, 0, 0>>[i]]],
           [i \in 1..topk |->
               [label |-> <<"daisy", "daisy", "bee", "leaf beetle", "unknown">>[i],
                probability |-> <<20, 20, 20, 20, 20>>[i]]] }

\* The scorer's result for each of these lists.
TopKScores == [preds \in TopKLists |-> ScoreTopK(preds, 0)]

\* What one model's inference can produce: an exception, or the scorer's
\* <<plant_score, animal_score>> for its top-5 list.  Requests draw from a
\* list without keywords, a plant-like and an animal-like one.
InferOutcomes ==
    { <<"raise">> }
    \cup { TopKScores[preds] :
             preds \in { OneKeywordList(NeutralLabel, 0),
                         OneKeywordList("daisy", 0),
                         OneKeywordList("cabbage butterfly", 1) } }

\* The per-model scores in dict order, for the models that are cached, have
\* a transform and did not raise.
RECURSIVE CollectScores(_, _, _, _)
CollectScores(i, models, transforms, infer) ==
    IF i > Len(ModelOrder) THEN <<>>
    ELSE LET m == ModelOrder[i]
             rest == CollectScores(i + 1, models, transforms, infer)
         IN  IF m \in models /\ m \in transforms /\ infer[m] # <<"raise">>
             THEN <<infer[m]>> \o rest
             ELSE rest

RECURSIVE SumField(_, _)
SumField(scores, f) ==
    IF scores = <<>> THEN 0 ELSE Head(scores)[f] + SumField(Tail(scores), f)

\* Lines 206-213.  With the averages sumP/n and sumA/n the normalized scores
\* are the fractions sumP/(sumP + sumA) and sumA/(sumP + sumA), kept as
\* <<plant numerator, animal numerator, common denominator>>; both default
\* to 1/2 when the total is not positive.
NormalizeScores_ZeroIsAnimal(sumP, sumA) ==
    IF sumP + sumA > 0 THEN <<sumP, sumA, sumP + sumA>> ELSE <<0, 2, 2>>

NormalizeScores(sumP, sumA) ==
    IF sumP + sumA > 0 THEN <<sumP, sumA, sumP + sumA>> ELSE <<1, 1, 2>>

\* the decision with a strict comparison
Decide_Strict(norm) == IF 2 * norm[1] > norm[3] THEN "plant" ELSE "animal"

\* Line 216: 'plant' if plant_score_norm >= 0.5 else 'animal'
Decide(norm) == IF 2 * norm[1] >= norm[3] THEN "plant" ELSE "animal"

\* the smaller of the two normalized scores
ConfidenceOf_Min(norm) ==
    <<IF norm[1] >= norm[2] THEN norm[2] ELSE norm[1], norm[3]>>

\* Line 217: max(plant_score_norm, animal_score_norm), as <<numerator,
\* denominator>>
ConfidenceOf(norm) ==
    <<IF norm[1] >= norm[2] THEN norm[1] ELSE norm[2], norm[3]>>

\* the averages taken over every model of the ensemble, a model without a
\* score counting as zero
EnsembleDecision_AllModels(scores) ==
    LET n == Len(ModelOrder)
        sumP == SumField(scores, 1)
        sumA == SumField(scores, 2)
        norm == NormalizeScores(sumP, sumA)
    IN  [decision |-> Decide(norm),
         confidence |-> ConfidenceOf(norm),
         ensemble_accuracy |-> [plant_score |-> <<sumP, n>>,
                                animal_score |-> <<sumA, n>>,
                                num_models |-> n]]

\* pytorch_identifier.py:203-232 on a non-empty score list.  The averages
\* are reported as <<sum, number of models>>.
EnsembleDecision(scores) ==
    LET n == Len(scores)
        sumP == SumField(scores, 1)
        sumA == SumField(scores, 2)
        norm == NormalizeScores(sumP, sumA)
    IN  [decision |-> Decide(norm),
         confidence |-> ConfidenceOf(norm),
         ensemble_accuracy |-> [plant_score |-> <<sumP, n>>,
                                animal_score |-> <<sumA, n>>,
                                num_models |-> n]]

\* the aggregation that answers an empty score list with the default
AggregateScores_EmptyDefault(scores) ==
    [result |-> EnsembleDecision(scores), error |-> NoneStr]

\* Lines 199-232: the aggregation of the per-model scores, as the value
\* returned (None when it raises) and the error raised (None when it
\* returns).
AggregateScores(scores) ==
    IF scores = <<>>
    THEN [result |-> None, error |-> "No models produced valid predictions"]
    ELSE [result |-> EnsembleDecision(scores), error |-> NoneStr]

\* ------------------------------------------------------------------------
\* State
\* ------------------------------------------------------------------------
VARIABLES
    pc,                 \* position of the request in flight
    entry,              \* which operation the caller invoked
    image_bytes,        \* "jpeg" (decodable), "garbage" (undecodable) or "empty"
    PYTORCH_AVAILABLE,  \* classifier.py:14-23
    PLANTNET_API_KEY,   \* os.environ.get('PLANTNET_API_KEY')
    MODELS,             \* pytorch_identifier._MODELS (keys)
    TRANSFORMS,         \* pytorch_identifier._TRANSFORMS (keys)
    LABELS,             \* pytorch_identifier._LABELS is set
    pytorch_result,     \* classify_image's pytorch_result (None if not obtained,
                        \* and once step 1 is over: it is not read after line 88)
    category,           \* classify_image's category
    pytorch_error,      \* the exception classify_image caught at line 89, if any
    log,                \* calls and returns of this request, in order
    result,             \* the value the operation returned
    response,           \* backend.predict's HTTP response
    gvpc,               \* position inside _try_google_vision
    gvSite,             \* the call site of the running _try_google_vision
    candidates,         \* _try_google_vision's candidates
    gvResult,           \* _try_google_vision's base result
    additional_details, \* _try_google_vision's additional_details
    fieldIdx,           \* legacy classify_image: index into field_names
    ensemble_scores,    \* classify_image_source's ensemble_scores
    model_iter,         \* classify_image_source: position of the model loop
    scan_idx,           \* _try_google_vision: position of the candidate loop
    chosen_enrichment,  \* _try_google_vision's chosen_enrichment
    lookups,            \* what _enrich_with_wikipedia returned, per candidate
    tpc,                \* _get_model_bundle: position of each calling thread
    load_count          \* how often each model's weights were loaded

vars == <<pc, entry, image_bytes, PYTORCH_AVAILABLE, PLANTNET_API_KEY, MODELS,
          TRANSFORMS, LABELS, pytorch_result, category, pytorch_error, log, result,
          response, gvpc, gvSite, candidates, gvResult, additional_details,
          fieldIdx, ensemble_scores, model_iter, scan_idx, chosen_enrichment,
          lookups, tpc, load_count>>

scoreVars == <<ensemble_scores, model_iter>>
scanVars == <<scan_idx, chosen_enrichment, lookups>>
bundleVars == <<tpc, load_count>>
\* The locals of the loops that the request-level actions run in one step.
stepVars == <<scoreVars, scanVars, bundleVars>>

\* Request threads of the server (Flask's development server is threaded).
Threads == {1, 2}

\* ensemble_scores as classify_image_source creates it (lines 141-145).
EmptyScores == [plant_scores |-> <<>>, animal_scores |-> <<>>, all_predictions |-> <<>>]

\* No loop is running.
StepIdle ==
    /\ ensemble_scores = EmptyScores
    /\ model_iter = 0
    /\ scan_idx = 0
    /\ chosen_enrichment = None
    /\ lookups = <<>>
    /\ tpc = [t \in Threads |-> [at |-> "idle", i |-> 0]]
    /\ load_count = [m \in ModelNames |-> 0]

processVars == <<PYTORCH_AVAILABLE, PLANTNET_API_KEY>>
cacheVars == <<MODELS, TRANSFORMS, LABELS>>
gvVars == <<gvpc, gvSite, candidates, gvResult, additional_details>>

\* One entry of the log.
Ev(ev, fn, site, val) == [ev |-> ev, fn |-> fn, site |-> site, val |-> val]

ImageKinds == {"jpeg", "garbage", "empty"}

Init ==
    /\ pc = "idle"
    /\ entry = NoneStr
    /\ image_bytes = NoneStr
    /\ PYTORCH_AVAILABLE \in BOOLEAN
    /\ PLANTNET_API_KEY \in {NoneStr, "key"}
    /\ MODELS = {}
    /\ TRANSFORMS = {}
    /\ LABELS = FALSE
    /\ pytorch_result = None
    /\ category = NoneStr
    /\ pytorch_error = NoneStr
    /\ log = <<>>
    /\ result = None
    /\ response = None
    /\ gvpc = "idle"
    /\ gvSite = NoneStr
    /\ candidates = <<>>
    /\ gvResult = None
    /\ additional_details = None
    /\ fieldIdx = 0
    /\ StepIdle

\* ------------------------------------------------------------------------
\* Entry points
\* ------------------------------------------------------------------------
\* backend.predict (backend.py:16-32) up to the call of classify_image: the
\* upload may be absent, unnamed or empty.  classify_image never raises, so
\* the handler's except branch (lines 37-43) is not taken.
Predict ==
    /\ pc = "idle"
    /\ entry' = "predict"
    /\ \E upload \in {"absent", "unnamed", "ok"}, b \in ImageKinds :
        IF upload = "absent"
        THEN /\ response' = [status |-> 400, error |-> "no image file provided"]
             /\ image_bytes' = NoneStr
             /\ pc' = "responded"
             /\ log' = log
        ELSE IF upload = "unnamed"
        THEN /\ response' = [status |-> 400, error |-> "invalid image file"]
             /\ image_bytes' = NoneStr
             /\ pc' = "responded"
             /\ log' = log
        ELSE IF b = "empty"
        THEN /\ response' = [status |-> 400, error |-> "image file is empty"]
             /\ image_bytes' = b
             /\ pc' = "responded"
             /\ log' = log
        ELSE /\ response' = None
             /\ image_bytes' = b
             /\ pc' = "ensemble"
             /\ log' = Append(log, Ev("enter", "classify_image", "predict", None))
    /\ UNCHANGED <<processVars, stepVars, cacheVars, pytorch_result, category, pytorch_error,
                   result, gvVars, fieldIdx>>

\* backend.predict after classify_image returned (backend.py:33-36).
PredictRespond ==
    /\ pc = "done"
    /\ entry = "predict"
    /\ response' = [status |-> 200, success |-> TRUE, result |-> result]
    /\ pc' = "responded"
    /\ UNCHANGED <<entry, image_bytes, processVars, stepVars, cacheVars, pytorch_result,
                   category, pytorch_error, log, result, gvVars, fieldIdx>>

\* classify_from_url (classifier.py:26-62): the download, then classify_image.
DownloadOutcomes ==
    { [kind |-> "raise", status_code |-> 0, content |-> NoneStr] }
    \cup { [kind |-> "http", status_code |-> 404, content |-> NoneStr] }
    \cup { [kind |-> "http", status_code |-> 200, content |-> b] : b \in ImageKinds }

\* classify_from_url that classifies whatever the download gave
ClassifyFromUrl_ClassifyAnyway ==
    /\ pc = "idle"
    /\ entry' = "classify_from_url"
    /\ \E d \in DownloadOutcomes :
        /\ result' = result
        /\ pc' = "ensemble"
        /\ image_bytes' = IF d.content = NoneStr THEN "garbage" ELSE d.content
        /\ log' = log \o <<Ev("download", "requests.get", "classify_from_url",
                               d.kind = "http" /\ d.status_code = 200),
                            Ev("enter", "classify_image", "classify_from_url", None)>>
    /\ UNCHANGED <<processVars, stepVars, cacheVars, pytorch_result, category,
                   pytorch_error, response, gvVars, fieldIdx>>

ClassifyFromUrl ==
    /\ pc = "idle"
    /\ entry' = "classify_from_url"
    /\ \E d \in DownloadOutcomes :
        LET downloaded == Ev("download", "requests.get", "classify_from_url",
                             d.kind = "http" /\ d.status_code = 200)
        IN  IF d.kind = "raise"
            THEN /\ result' = [label |-> NoneStr, confidence |-> NoneNum, source |-> NoneStr,
                               error |-> "Failed to download image: " \o "timeout"]
                 /\ pc' = "done"
                 /\ image_bytes' = NoneStr
                 /\ log' = Append(log, downloaded)
            ELSE IF d.status_code # 200
            THEN /\ result' = [label |-> NoneStr, confidence |-> NoneNum, source |-> NoneStr,
                               error |-> "Failed to download image: " \o ToString(d.status_code)]
                 /\ pc' = "done"
                 /\ image_bytes' = NoneStr
                 /\ log' = Append(log, downloaded)
            ELSE /\ result' = result
                 /\ pc' = "ensemble"
                 /\ image_bytes' = d.content
                 /\ log' = log \o <<downloaded,
                                     Ev("enter", "classify_image", "classify_from_url", None)>>
    /\ UNCHANGED <<processVars, stepVars, cacheVars, pytorch_result, category,
                   pytorch_error, response, gvVars, fieldIdx>>

\* ------------------------------------------------------------------------
\* classify_image, step 1: the ensemble (classifier.py:81-90 and
\* pytorch_identifier.classify_image_source)
\* ------------------------------------------------------------------------
\* Load events of _get_model_bundle, in load order.
LoadEvents(loadOk) ==
    [i \in 1..Len(ModelOrder) |->
        Ev("load", ModelOrder[i], "_get_model_bundle", ModelOrder[i] \in loadOk)]

\* Inference events, one per cached model with a transform, in dict order.
RECURSIVE InferEvents(_, _, _)
InferEvents(i, models, transforms) ==
    IF i > Len(ModelOrder) THEN <<>>
    ELSE LET m == ModelOrder[i]
             rest == InferEvents(i + 1, models, transforms)
         IN  IF m \in models /\ m \in transforms
             THEN <<Ev("infer", m, "classify_image_source", TRUE)>> \o rest
             ELSE rest

\* the cache test that wants every model of the ensemble cached
BundleCached_AllModels(models, labels, transforms) ==
    models = ModelNames /\ labels /\ transforms = ModelNames

\* pytorch_identifier.py:83: `if _MODELS and _LABELS and _TRANSFORMS`
BundleCached(models, labels, transforms) ==
    models # {} /\ labels /\ transforms # {}

RunEnsemble ==
    /\ pc = "ensemble"
    /\ pc' = "route"
    /\ IF ~PYTORCH_AVAILABLE
       THEN /\ category' = NoneStr
            /\ UNCHANGED <<cacheVars, pytorch_result, pytorch_error, log>>
       ELSE \E loadOk \in LoadOutcomes, infer \in [ModelNames -> InferOutcomes] :
            LET cached == BundleCached(MODELS, LABELS, TRANSFORMS)
                models == IF cached THEN MODELS ELSE MODELS \cup loadOk
                transforms == IF cached THEN TRANSFORMS ELSE TRANSFORMS \cup loadOk
                loads == IF cached THEN <<>> ELSE LoadEvents(loadOk)
                bundleRaises == models = {}
                decodeRaises == image_bytes # "jpeg"
                decode == <<Ev("decode", "Image.open", "classify_image_source", ~decodeRaises)>>
                scores == CollectScores(1, models, transforms, infer)
                agg == AggregateScores(scores)
                pr == IF bundleRaises \/ decodeRaises THEN None ELSE agg.result
            IN  /\ MODELS' = models
                /\ TRANSFORMS' = transforms
                /\ LABELS' = TRUE
                /\ log' = log \o loads
                              \o (IF bundleRaises THEN <<>> ELSE decode)
                              \o (IF bundleRaises \/ decodeRaises THEN <<>>
                                  ELSE InferEvents(1, models, transforms))
                /\ pytorch_result' = pr
                /\ pytorch_error' = IF bundleRaises THEN "Failed to load any ensemble models"
                                    ELSE IF decodeRaises THEN "cannot identify image file"
                                    ELSE agg.error
                /\ category' = IF TruthyDict(pr) THEN pr.decision ELSE NoneStr
    /\ UNCHANGED <<entry, image_bytes, processVars, stepVars, result, response,
                   gvVars, fieldIdx>>

\* ------------------------------------------------------------------------
\* classify_image, steps 2 and 3: routing (classifier.py:92-119)
\* ------------------------------------------------------------------------
\* the failure record without its source field
TerminalFailure_NoSource ==
    [label |-> NoneStr, confidence |-> NoneNum,
     error |-> "No classification provider could classify the image"]

\* classifier.py:114-119
TerminalFailure ==
    [label |-> NoneStr, confidence |-> NoneNum, source |-> NoneStr,
     error |-> "No classification provider could classify the image"]

\* the adapter that posts the image whether or not it has a key
PlantnetRequests_Always(api_key, site) ==
    <<Ev("http", "requests.post", site, TRUE)>>

\* The HTTP requests of one _try_plantnet call (classifier.py:450-459): none
\* when the key is missing (the function returns at line 453), one POST
\* otherwise.
PlantnetRequests(api_key, site) ==
    IF ~Truthy(api_key) THEN <<>>
    ELSE <<Ev("http", "requests.post", site, TRUE)>>

\* category == 'plant': the plant specialist first (classifier.py:93-99).
Stage1PlantNet ==
    /\ pc = "route"
    /\ category = "plant"
    /\ \E resp \in PlantNetResponses :
        LET r == TryPlantnet(PLANTNET_API_KEY, resp)
        IN  /\ log' = log \o <<Ev("call", "_try_plantnet", "stage1", None)>>
                            \o PlantnetRequests(PLANTNET_API_KEY, "stage1")
                            \o <<Ev("ret", "_try_plantnet", "stage1", r)>>
            /\ IF TruthyDict(r)
               THEN pc' = "done" /\ result' = r
               ELSE pc' = "fallback" /\ result' = result
    /\ pytorch_result' = None
    /\ UNCHANGED <<entry, image_bytes, processVars, stepVars, cacheVars,
                   category, pytorch_error, response, gvVars, fieldIdx>>

\* category == 'animal': the general provider (classifier.py:100-102).
Stage2Google ==
    /\ pc = "route"
    /\ category = "animal"
    /\ pc' = "google"
    /\ gvpc' = "label"
    /\ gvSite' = "stage2"
    /\ log' = Append(log, Ev("call", "_try_google_vision", "stage2", None))
    /\ pytorch_result' = None
    /\ UNCHANGED <<entry, image_bytes, processVars, stepVars, cacheVars,
                   category, pytorch_error, result, response, candidates, gvResult,
                   additional_details, fieldIdx>>

\* No category: the request ends with the failure record at once.
NoCategory_Abort ==
    /\ pc = "route"
    /\ category \notin {"plant", "animal"}
    /\ pc' = "done"
    /\ result' = [label |-> NoneStr, confidence |-> NoneNum, source |-> NoneStr,
                  error |-> "No classification provider could classify the image"]
    /\ pytorch_result' = None
    /\ UNCHANGED <<entry, image_bytes, processVars, stepVars, cacheVars,
                   category, pytorch_error, log, response, gvVars, fieldIdx>>

\* No category: neither branch of step 2 is taken.
NoCategory ==
    /\ pc = "route"
    /\ category \notin {"plant", "animal"}
    /\ pc' = "fallback"
    /\ pytorch_result' = None
    /\ UNCHANGED <<entry, image_bytes, processVars, stepVars, cacheVars,
                   category, pytorch_error, log, result, response, gvVars, fieldIdx>>

\* Step 3: the general provider as fallback (classifier.py:106-108).
Stage3Google ==
    /\ pc = "fallback"
    /\ pc' = "google"
    /\ gvpc' = "label"
    /\ gvSite' = "stage3"
    /\ log' = Append(log, Ev("call", "_try_google_vision", "stage3", None))
    /\ UNCHANGED <<entry, image_bytes, processVars, stepVars, cacheVars, pytorch_result,
                   category, pytorch_error, result, response, candidates, gvResult,
                   additional_details, fieldIdx>>

\* _try_google_vision returns val to its call site, and classify_image goes
\* on from there (classifier.py:103-104 and 109-119); lg is the log so far.
GVReturn(val, lg) ==
    /\ log' = Append(lg, Ev("ret", "_try_google_vision", gvSite, val))
    /\ gvpc' = "idle"
    /\ gvSite' = NoneStr
    /\ candidates' = <<>>
    /\ gvResult' = None
    /\ additional_details' = None
    /\ IF TruthyDict(val) THEN pc' = "done" /\ result' = val
       ELSE IF gvSite = "stage2" THEN pc' = "fallback" /\ result' = result
       ELSE pc' = "done" /\ result' = TerminalFailure

\* ------------------------------------------------------------------------
\* _try_google_vision (classifier.py:122-296)
\* ------------------------------------------------------------------------
LabelVocab == {"Rose", "Golden Retriever", "Bird"}
Annotations == { [description |-> t, score |-> 95] : t \in LabelVocab }
\* label_annotations: up to MaxLabels annotations with distinct descriptions
LabelSeqs ==
    { q \in UNION { [1..n -> Annotations] : n \in 0..MaxLabels } :
        \A i, j \in 1..Len(q) : i # j => q[i] # q[j] }

\* import failure, an exception from the client or the call, an error
\* message in the response, or a list of label annotations
LabelOutcomes ==
    { [kind |-> k, labels |-> <<>>] : k \in {"import_error", "raise", "error"} }
    \cup { [kind |-> "ok", labels |-> ls] : ls \in LabelSeqs }

WebResponses ==
    { [kind |-> "raise", best_guess_labels |-> <<>>, web_entities |-> <<>>],
      [kind |-> "ok", best_guess_labels |-> <<>>, web_entities |-> <<>>],
      [kind |-> "ok", best_guess_labels |-> <<"Orchid">>, web_entities |-> <<>>],
      [kind |-> "ok", best_guess_labels |-> <<>>, web_entities |-> <<"Golden Retriever", "Orchid">>] }

\* The result built from the top label (classifier.py:181-189).
BaseResult(labels, details) ==
    [label |-> labels[1].description,
     confidence |-> labels[1].score,
     source |-> "google_vision_labels",
     error |-> NoneStr,
     all_labels |-> Take(labels, 5),
     additional_details |-> details]

\* Label detection and, when it yields labels, the candidates, the
\* auxiliary details and the base result (classifier.py:128-189).
GVLabelDetection ==
    /\ pc = "google"
    /\ gvpc = "label"
    /\ \E out \in LabelOutcomes :
        IF out.kind \in {"import_error", "raise"}
        THEN /\ GVReturn(None, IF out.kind = "raise"
                               THEN Append(log, Ev("stage", "label_detection", gvSite, NoneStr))
                               ELSE log)
        ELSE IF out.kind = "error" \/ out.labels = <<>>
        THEN /\ gvpc' = "objects"
             /\ log' = Append(log, Ev("stage", "label_detection", gvSite, NoneStr))
             /\ UNCHANGED <<pc, result, gvSite, candidates, gvResult, additional_details>>
        ELSE \E web \in WebResponses, aux \in AuxOutcomes :
             LET labels == out.labels
                 top == labels[1]
                 details == GetAdditionalVisionDetails(aux)
             IN  /\ candidates' = WebCandidates(LabelCandidates(labels), web)
                 /\ additional_details' = details
                 /\ gvResult' = BaseResult(labels, details)
                 /\ gvpc' = "reroute"
                 /\ log' = Append(log, Ev("stage", "label_detection", gvSite, top.description))
                 /\ UNCHANGED <<pc, result, gvSite>>
    /\ UNCHANGED <<entry, image_bytes, processVars, stepVars, cacheVars, pytorch_result,
                   category, pytorch_error, response, fieldIdx>>

\* Plant-like candidates: the plant specialist is asked, and its result is
\* returned when it has one (classifier.py:191-203).
GVReroute ==
    /\ pc = "google"
    /\ gvpc = "reroute"
    /\ IF any_plant(candidates)
       THEN \E resp \in PlantNetResponses :
            LET r == TryPlantnet(PLANTNET_API_KEY, resp)
                lg == log \o <<Ev("call", "_try_plantnet", "reroute", None)>>
                          \o PlantnetRequests(PLANTNET_API_KEY, "reroute")
                          \o <<Ev("ret", "_try_plantnet", "reroute", r)>>
            IN  IF TruthyDict(r)
                THEN GVReturn(MergeReroute(r, additional_details), lg)
                ELSE /\ gvpc' = "enrich"
                     /\ log' = lg
                     /\ UNCHANGED <<pc, result, gvSite, candidates, gvResult,
                                    additional_details>>
       ELSE /\ gvpc' = "enrich"
            /\ UNCHANGED <<pc, result, log, gvSite, candidates, gvResult,
                           additional_details>>
    /\ UNCHANGED <<entry, image_bytes, processVars, stepVars, cacheVars, pytorch_result,
                   category, pytorch_error, response, fieldIdx>>

\* The enrichment scan and the merge of its result (classifier.py:205-236).
GVEnrich ==
    /\ pc = "google"
    /\ gvpc = "enrich"
    /\ \E lks \in [1..Len(candidates) -> WikiLookups] :
        LET scan == ScanEnrichment(candidates, lks, 1, None)
        IN  GVReturn(ApplyEnrichment(gvResult, scan.chosen),
                     Append(log, Ev("enrich", "_enrich_with_wikipedia", gvSite, scan.looked)))
    /\ UNCHANGED <<entry, image_bytes, processVars, stepVars, cacheVars, pytorch_result,
                   category, pytorch_error, response, fieldIdx>>

\* Object localization (classifier.py:238-253).
ObjectOutcomes ==
    { [kind |-> "raise", objects |-> <<>>],
      [kind |-> "ok", objects |-> <<>>],
      [kind |-> "ok", objects |-> <<[name |-> "Animal", score |-> 70]>>] }

\* object localization that goes on to the next detection whatever it found
GVObjects_IgnoreFound ==
    /\ pc = "google"
    /\ gvpc = "objects"
    /\ \E out \in ObjectOutcomes :
        LET found == IF out.objects # <<>> THEN out.objects[1].name ELSE NoneStr
            lg == Append(log, Ev("stage", "object_localization", gvSite, found))
        IN  IF out.kind = "raise" THEN GVReturn(None, lg)
            ELSE /\ gvpc' = "landmark"
                 /\ log' = lg
                 /\ UNCHANGED <<pc, result, gvSite, candidates, gvResult,
                                additional_details>>
    /\ UNCHANGED <<entry, image_bytes, processVars, stepVars, cacheVars, pytorch_result,
                   category, pytorch_error, response, fieldIdx>>

\* The log keeps, per detection, the label it yielded (None when it yielded
\* none or raised).
GVObjects ==
    /\ pc = "google"
    /\ gvpc = "objects"
    /\ \E out \in ObjectOutcomes :
        LET found == IF out.objects # <<>> THEN out.objects[1].name ELSE NoneStr
            lg == Append(log, Ev("stage", "object_localization", gvSite, found))
        IN  IF out.kind = "raise" THEN GVReturn(None, lg)
            ELSE IF out.objects # <<>>
            THEN GVReturn([label |-> out.objects[1].name,
                           confidence |-> out.objects[1].score,
                           source |-> "google_vision_objects",
                           error |-> NoneStr,
                           all_objects |-> Take(out.objects, 5)], lg)
            ELSE /\ gvpc' = "landmark"
                 /\ log' = lg
                 /\ UNCHANGED <<pc, result, gvSite, candidates, gvResult,
                                additional_details>>
    /\ UNCHANGED <<entry, image_bytes, processVars, stepVars, cacheVars, pytorch_result,
                   category, pytorch_error, response, fieldIdx>>

\* Landmark detection (classifier.py:255-269).
LandmarkOutcomes ==
    { [kind |-> "raise", landmarks |-> <<>>],
      [kind |-> "ok", landmarks |-> <<>>],
      [kind |-> "ok", landmarks |-> <<[description |-> "Kew Gardens", score |-> 60,
                                       locations |-> NoneStr]>>] }

GVLandmark ==
    /\ pc = "google"
    /\ gvpc = "landmark"
    /\ \E out \in LandmarkOutcomes :
        LET found == IF out.landmarks # <<>> THEN out.landmarks[1].description
                     ELSE NoneStr
            lg == Append(log, Ev("stage", "landmark_detection", gvSite, found))
        IN  IF out.kind = "raise" THEN GVReturn(None, lg)
            ELSE IF out.landmarks # <<>>
            THEN GVReturn([label |-> out.landmarks[1].description,
                           confidence |-> out.landmarks[1].score,
                           source |-> "google_vision_landmark",
                           error |-> NoneStr,
                           location |-> out.landmarks[1].locations], lg)
            ELSE /\ gvpc' = "web"
                 /\ log' = lg
                 /\ UNCHANGED <<pc, result, gvSite, candidates, gvResult,
                                additional_details>>
    /\ UNCHANGED <<entry, image_bytes, processVars, stepVars, cacheVars, pytorch_result,
                   category, pytorch_error, response, fieldIdx>>

\* Web detection's best guess (classifier.py:271-296).
WebOutcomes ==
    { [kind |-> "raise", best_guess_labels |-> <<>>, web_entities |-> <<>>],
      [kind |-> "error", best_guess_labels |-> <<>>, web_entities |-> <<>>],
      [kind |-> "ok", best_guess_labels |-> <<>>, web_entities |-> <<>>],
      [kind |-> "ok", best_guess_labels |-> <<"">>, web_entities |-> <<>>],
      [kind |-> "ok", best_guess_labels |-> <<"Orchid">>,
       web_entities |-> <<[description |-> "Orchid", score |-> 55]>>] }

GVWeb ==
    /\ pc = "google"
    /\ gvpc = "web"
    /\ \E out \in WebOutcomes :
        LET yields == /\ out.kind = "ok"
                      /\ out.best_guess_labels # <<>>
                      /\ Truthy(out.best_guess_labels[1])
            lg == Append(log, Ev("stage", "web_detection", gvSite,
                                 IF yields THEN out.best_guess_labels[1] ELSE NoneStr))
        IN  IF yields
            THEN GVReturn([label |-> out.best_guess_labels[1],
                           confidence |-> 50,
                           source |-> "google_vision_web",
                           error |-> NoneStr,
                           web_entities |-> Take(out.web_entities, 5)], lg)
            ELSE GVReturn(None, lg)
    /\ UNCHANGED <<entry, image_bytes, processVars, stepVars, cacheVars, pytorch_result,
                   category, pytorch_error, response, fieldIdx>>

\* ------------------------------------------------------------------------
\* Legacy variant (Desktop/MJLHackathon2026/backend/classifier.py)
\* ------------------------------------------------------------------------
\* JSON values carry their Python type.
JDict(f) == [t |-> "dict", v |-> f]
JList(q) == [t |-> "list", v |-> q]
JStr(x) == [t |-> "str", v |-> x]
JNum(n) == [t |-> "num", v |-> n]

\* dict.get(k) of a string / number field, None when absent or of another type
GetStr(d, k) == IF k \in DOMAIN d THEN (IF d[k].t = "str" THEN d[k].v ELSE NoneStr) ELSE NoneStr
GetNum(d, k) == IF k \in DOMAIN d THEN (IF d[k].t = "num" THEN d[k].v ELSE NoneNum) ELSE NoneNum

\* _extract_species_from_response.  The dict branch recurses into the values;
\* the samples have at most one value that holds a suggestion, so the order
\* of the values does not matter.
RECURSIVE ExtractSpecies(_)
ExtractSpecies(data) ==
    IF data.t = "dict"
    THEN LET d == data.v
             hasTaxon == IF "taxon" \in DOMAIN d THEN d["taxon"].t = "dict" ELSE FALSE
             tax == d["taxon"].v
             name == PyOr(PyOr(GetStr(tax, "name"), GetStr(tax, "scientific_name")),
                          GetStr(tax, "preferred_common_name"))
             hits == { k \in DOMAIN d : TruthyDict(ExtractSpecies(d[k])) }
         IN  IF hasTaxon /\ Truthy(name)
             THEN [name |-> name,
                   common_name |-> GetStr(tax, "preferred_common_name"),
                   score |-> PyOrNum(GetNum(d, "score"), GetNum(d, "confidence"))]
             ELSE IF "species_guess" \in DOMAIN d
             THEN [name |-> GetStr(d, "species_guess"), common_name |-> NoneStr,
                   score |-> GetNum(d, "score")]
             ELSE IF hits = {} THEN None
             ELSE ExtractSpecies(d[CHOOSE k \in hits : TRUE])
    ELSE IF data.t = "list"
    THEN IF data.v = <<>> THEN None
         ELSE LET found == ExtractSpecies(Head(data.v))
              IN  IF TruthyDict(found) THEN found
                  ELSE ExtractSpecies(JList(Tail(data.v)))
    ELSE None

field_names == <<"image", "file", "images[]", "observation_photos[][file]", "photo">>

LegacyJson ==
    { JDict([results |-> JList(<<JDict([taxon |-> JDict([name |-> JStr("Rosa chinensis"),
                                                         preferred_common_name |-> JStr("China rose")]),
                                        score |-> JNum(80)])>>)]),
      JDict([species_guess |-> JStr(NoneStr)]),
      JDict([results |-> JList(<<>>)]),
      JDict([status |-> JStr("ok")]) }

LegacyOutcomes ==
    { [kind |-> "raise", status_code |-> 0, json |-> JStr(NoneStr)],
      [kind |-> "http", status_code |-> 500, json |-> JStr(NoneStr)],
      [kind |-> "badjson", status_code |-> 200, json |-> JStr(NoneStr)] }
    \cup { [kind |-> "http", status_code |-> 200, json |-> j] : j \in LegacyJson }

\* classify_image of the legacy variant is entered (lines 53-66).
LegacyClassifyImage ==
    /\ pc = "idle"
    /\ entry' = "legacy_classify_image"
    /\ image_bytes' \in ImageKinds
    /\ pc' = "legacy"
    /\ fieldIdx' = 1
    /\ UNCHANGED <<processVars, stepVars, cacheVars, pytorch_result, category, pytorch_error, log, result,
                   response, gvVars>>

\* One iteration of the loop over field_names (lines 68-91), or the return
\* after the loop (line 94).
LegacyTryField ==
    /\ pc = "legacy"
    /\ IF fieldIdx > Len(field_names)
       THEN /\ result' = [label |-> NoneStr, confidence |-> NoneNum,
                          raw |-> JDict([error |-> JStr("no suggestion or request failed")])]
            /\ pc' = "done"
            /\ fieldIdx' = 0
            /\ log' = log
       ELSE \E out \in LegacyOutcomes :
            LET species_info == ExtractSpecies(out.json)
                j == out.json
                lg == Append(log, Ev("post", "iNaturalist", field_names[fieldIdx], None))
            IN  /\ log' = lg
                /\ IF out.kind # "http" \/ out.status_code # 200
                   THEN /\ fieldIdx' = fieldIdx + 1
                        /\ UNCHANGED <<pc, result>>
                   ELSE IF TruthyDict(species_info)
                   THEN /\ result' = [label |-> PyOr(species_info.name, species_info.common_name),
                                      confidence |-> species_info.score,
                                      raw |-> j]
                        /\ pc' = "done"
                        /\ fieldIdx' = 0
                   ELSE IF j.t = "dict" /\ DOMAIN j.v \cap {"results", "suggestions", "predictions"} # {}
                   THEN /\ result' = [label |-> NoneStr, confidence |-> NoneNum, raw |-> j]
                        /\ pc' = "done"
                        /\ fieldIdx' = 0
                   ELSE /\ fieldIdx' = fieldIdx + 1
                        /\ UNCHANGED <<pc, result>>
    /\ UNCHANGED <<entry, image_bytes, processVars, stepVars, cacheVars, pytorch_result,
                   category, pytorch_error, response, gvVars>>

\* ------------------------------------------------------------------------
\* The next request: everything of the finished one is discarded, the
\* process-wide model cache stays.
\* ------------------------------------------------------------------------
NewRequest ==
    /\ \/ pc = "responded"
       \/ pc = "done" /\ entry # "predict"
    /\ pc' = "idle"
    /\ entry' = NoneStr
    /\ image_bytes' = NoneStr
    /\ pytorch_result' = None
    /\ category' = NoneStr
    /\ pytorch_error' = NoneStr
    /\ log' = <<>>
    /\ result' = None
    /\ response' = None
    /\ fieldIdx' = 0
    /\ UNCHANGED <<processVars, stepVars, cacheVars, gvVars>>

Next ==
    \/ Predict
    \/ PredictRespond
    \/ ClassifyFromUrl
    \/ RunEnsemble
    \/ Stage1PlantNet
    \/ Stage2Google
    \/ NoCategory
    \/ Stage3Google
    \/ GVLabelDetection
    \/ GVReroute
    \/ GVEnrich
    \/ GVObjects
    \/ GVLandmark
    \/ GVWeb
    \/ LegacyClassifyImage
    \/ LegacyTryField
    \/ NewRequest

Spec == Init /\ [][Next]_vars

\* ------------------------------------------------------------------------
\* classify_image_source with its model loop taken one iteration per step
\* (pytorch_identifier.py:129-232), on a cached bundle and a decodable image
\* ------------------------------------------------------------------------
\* Cached bundles: all models, only the first, or all models with the
\* transform of one of them missing.
CachedBundles ==
    { [models |-> ModelNames, transforms |-> ModelNames],
      [models |-> {"resnet50"}, transforms |-> {"resnet50"}],
      [models |-> ModelNames, transforms |-> ModelNames \ {"efficientnet_b2"}] }

ScoreInit ==
    /\ pc = "idle"
    /\ entry = NoneStr
    /\ image_bytes = NoneStr
    /\ PYTORCH_AVAILABLE = TRUE
    /\ PLANTNET_API_KEY = "key"
    /\ \E b \in CachedBundles : MODELS = b.models /\ TRANSFORMS = b.transforms
    /\ LABELS = TRUE
    /\ pytorch_result = None
    /\ category = NoneStr
    /\ pytorch_error = NoneStr
    /\ log = <<>>
    /\ result = None
    /\ response = None
    /\ gvpc = "idle"
    /\ gvSite = NoneStr
    /\ candidates = <<>>
    /\ gvResult = None
    /\ additional_details = None
    /\ fieldIdx = 0
    /\ StepIdle

\* What the request-level variables do during the loop steps: nothing.
requestVars == <<processVars, cacheVars, result, response, gvVars, fieldIdx,
                 scanVars, bundleVars>>

\* Lines 132-145: the bundle is returned from the cache, the image is
\* decoded and ensemble_scores is created.
ScoreBegin ==
    /\ pc = "idle"
    /\ pc' = "models"
    /\ entry' = "classify_image_source"
    /\ image_bytes' = "jpeg"
    /\ ensemble_scores' = EmptyScores
    /\ model_iter' = 1
    /\ UNCHANGED <<requestVars, log, pytorch_result, category, pytorch_error>>

\* One iteration of the loop over models_dict.items() (lines 147-197): a
\* model without a transform is skipped, one whose inference raises is
\* skipped with a warning, and otherwise its top-k list is scored and
\* recorded.  The log keeps, per model run, whether it produced a score.
ScoreModel ==
    /\ pc = "models"
    /\ model_iter \in 1..Len(ModelOrder)
    /\ model_iter' = model_iter + 1
    /\ LET model_name == ModelOrder[model_iter]
       IN  IF model_name \notin MODELS \/ model_name \notin TRANSFORMS
           THEN UNCHANGED <<ensemble_scores, log>>
           ELSE \E raises \in BOOLEAN, preds \in TopKLists :
                /\ log' = Append(log, Ev("scored", model_name, "classify_image_source",
                                         ~raises))
                /\ IF raises THEN UNCHANGED ensemble_scores
                   ELSE LET s == TopKScores[preds]
                        IN  ensemble_scores' =
                              [plant_scores |-> Append(ensemble_scores.plant_scores, s[1]),
                               animal_scores |-> Append(ensemble_scores.animal_scores, s[2]),
                               all_predictions |-> Append(ensemble_scores.all_predictions, preds)]
    /\ UNCHANGED <<requestVars, pc, entry, image_bytes, pytorch_result, category,
                   pytorch_error>>

\* ensemble_scores as the list of <<plant_score, animal_score>> pairs
ScorePairs(es) ==
    [i \in 1..Len(es.plant_scores) |-> <<es.plant_scores[i], es.animal_scores[i]>>]

\* After the loop (lines 199-232): the aggregation returns or raises, and
\* classify_image takes the category from what it got (classifier.py:83-90).
Aggregate ==
    /\ pc = "models"
    /\ model_iter > Len(ModelOrder)
    /\ LET agg == AggregateScores(ScorePairs(ensemble_scores))
       IN  /\ pytorch_result' = agg.result
           /\ pytorch_error' = agg.error
           /\ category' = IF TruthyDict(agg.result) THEN agg.result.decision ELSE NoneStr
    /\ pc' = "route"
    /\ UNCHANGED <<requestVars, log, entry, image_bytes, scoreVars>>

\* The next call.
ScoreAgain ==
    /\ pc = "route"
    /\ pc' = "idle"
    /\ entry' = NoneStr
    /\ image_bytes' = NoneStr
    /\ pytorch_result' = None
    /\ pytorch_error' = NoneStr
    /\ category' = NoneStr
    /\ ensemble_scores' = EmptyScores
    /\ model_iter' = 0
    /\ log' = <<>>
    /\ UNCHANGED requestVars

ScoreNext == ScoreBegin \/ ScoreModel \/ Aggregate \/ ScoreAgain

ScoreSpec == ScoreInit /\ [][ScoreNext]_vars

\* ------------------------------------------------------------------------
\* _get_model_bundle called by concurrent request threads, one statement
\* group per step (pytorch_identifier.py:79-122).  Nothing in the function
\* takes a lock, so the threads' steps interleave freely.
\* ------------------------------------------------------------------------
\* A thread's position: where it is and, in the loading part, at which model.
At(where, i) == [at |-> where, i |-> i]

BundleInit ==
    /\ Init
    /\ PYTORCH_AVAILABLE = TRUE
    /\ PLANTNET_API_KEY = "key"

\* What a bundle step leaves alone.
nonBundleVars == <<pc, entry, image_bytes, processVars, pytorch_result, category,
                   pytorch_error, log, result, response, gvVars, fieldIdx,
                   scoreVars, scanVars>>

\* A request thread calls _get_model_bundle (line 133 of the caller).
BundleCall(t) ==
    /\ tpc[t] = At("idle", 0)
    /\ tpc' = [tpc EXCEPT ![t] = At("check", 0)]
    /\ UNCHANGED <<nonBundleVars, cacheVars, load_count>>

\* Lines 83-84: the cached bundle is returned when all three globals are
\* truthy.
BundleCheck(t) ==
    /\ tpc[t] = At("check", 0)
    /\ tpc' = [tpc EXCEPT ![t] = IF BundleCached(MODELS, LABELS, TRANSFORMS)
                                  THEN At("returned", 0)
                                  ELSE At("labels", 0)]
    /\ UNCHANGED <<nonBundleVars, cacheVars, load_count>>

\* Lines 86-87: the labels are fetched and stored.
BundleLabels(t) ==
    /\ tpc[t] = At("labels", 0)
    /\ LABELS' = TRUE
    /\ tpc' = [tpc EXCEPT ![t] = At("construct", 1)]
    /\ UNCHANGED <<nonBundleVars, MODELS, TRANSFORMS, load_count>>

\* The position after the try block of model i.
AfterModel(i) == IF i < Len(ModelOrder) THEN At("construct", i + 1) ELSE At("finish", 0)

\* Lines 91-93, 101-103, 111-113: the weights are loaded and the model is
\* built, or the attempt raises and the except clause only warns.
BundleConstruct(t) ==
    /\ tpc[t].at = "construct"
    /\ \E ok \in BOOLEAN :
        IF ok
        THEN /\ load_count' = [load_count EXCEPT ![ModelOrder[tpc[t].i]] = @ + 1]
             /\ tpc' = [tpc EXCEPT ![t] = At("insert_model", tpc[t].i)]
        ELSE /\ load_count' = load_count
             /\ tpc' = [tpc EXCEPT ![t] = AfterModel(tpc[t].i)]
    /\ UNCHANGED <<nonBundleVars, cacheVars>>

\* Lines 94, 104, 114: _MODELS[name] = model
BundleInsertModel(t) ==
    /\ tpc[t].at = "insert_model"
    /\ MODELS' = MODELS \cup {ModelOrder[tpc[t].i]}
    /\ tpc' = [tpc EXCEPT ![t] = At("insert_transform", tpc[t].i)]
    /\ UNCHANGED <<nonBundleVars, TRANSFORMS, LABELS, load_count>>

\* Lines 95, 105, 115: _TRANSFORMS[name] = weights.transforms()
BundleInsertTransform(t) ==
    /\ tpc[t].at = "insert_transform"
    /\ TRANSFORMS' = TRANSFORMS \cup {ModelOrder[tpc[t].i]}
    /\ tpc' = [tpc EXCEPT ![t] = AfterModel(tpc[t].i)]
    /\ UNCHANGED <<nonBundleVars, MODELS, LABELS, load_count>>

\* Lines 119-122: raise when no model is cached, else return the bundle.
BundleFinish(t) ==
    /\ tpc[t] = At("finish", 0)
    /\ tpc' = [tpc EXCEPT ![t] = IF MODELS = {} THEN At("raised", 0) ELSE At("returned", 0)]
    /\ UNCHANGED <<nonBundleVars, cacheVars, load_count>>

\* The caller holds the dicts it was handed (the cache's own objects, not
\* copies) while its model loop runs over them (lines 147-197); then the
\* call is over and the thread serves its next request.
BundleDone(t) ==
    /\ tpc[t].at \in {"returned", "raised"}
    /\ tpc' = [tpc EXCEPT ![t] = At("idle", 0)]
    /\ UNCHANGED <<nonBundleVars, cacheVars, load_count>>

BundleNext ==
    \E t \in Threads :
        \/ BundleCall(t)
        \/ BundleCheck(t)
        \/ BundleLabels(t)
        \/ BundleConstruct(t)
        \/ BundleInsertModel(t)
        \/ BundleInsertTransform(t)
        \/ BundleFinish(t)
        \/ BundleDone(t)

BundleSpec == BundleInit /\ [][BundleNext]_vars

\* ------------------------------------------------------------------------
\* The enrichment scan of _try_google_vision with its candidate loop taken
\* one iteration per step (classifier.py:205-236), on the candidates and the
\* base result of a label detection
\* ------------------------------------------------------------------------
\* Answers whose first hit has an empty title, with and without a taxon name.
EmptyTitleLookups ==
    { [kind |-> "http", status_code |-> 200, search |-> <<"">>,
       wikibase_item |-> "Q34687", P225 |-> "Rosa"],
      [kind |-> "http", status_code |-> 200, search |-> <<"">>,
       wikibase_item |-> NoneStr, P225 |-> NoneStr] }

ScanLookups == WikiLookups \cup EmptyTitleLookups

EnrichInit ==
    /\ pc = "google"
    /\ entry = "_try_google_vision"
    /\ image_bytes = "jpeg"
    /\ PYTORCH_AVAILABLE = TRUE
    /\ PLANTNET_API_KEY = NoneStr
    /\ MODELS = {}
    /\ TRANSFORMS = {}
    /\ LABELS = FALSE
    /\ pytorch_result = None
    /\ category = NoneStr
    /\ pytorch_error = NoneStr
    /\ log = <<>>
    /\ result = None
    /\ response = None
    /\ gvpc = "enrich"
    /\ gvSite = "stage3"
    /\ \E labels \in LabelSeqs \ {<<>>}, web \in WebResponses :
        /\ candidates = WebCandidates(LabelCandidates(labels), web)
        /\ gvResult = BaseResult(labels, None)
    /\ additional_details = None
    /\ fieldIdx = 0
    /\ StepIdle

\* What a scan step leaves alone.
nonScanVars == <<entry, image_bytes, processVars, cacheVars, pytorch_result, category,
                 pytorch_error, log, response, gvSite, candidates, gvResult,
                 additional_details, fieldIdx, scoreVars, bundleVars>>

\* One iteration of `for candidate in candidates` (lines 207-223): the
\* lookup, then break or continue; scan_idx candidates are done.
EnrichLookup ==
    /\ pc = "google"
    /\ gvpc = "enrich"
    /\ scan_idx < Len(candidates)
    /\ \E lk \in ScanLookups :
        LET candidate == candidates[scan_idx + 1]
            enrich == EnrichWithWikipedia(candidate, lk)
            s == ScanStep(chosen_enrichment, enrich)
        IN  /\ lookups' = Append(lookups, [label |-> candidate, enrich |-> enrich])
            /\ chosen_enrichment' = s.chosen
            /\ scan_idx' = scan_idx + 1
            /\ gvpc' = IF s.stop \/ scan_idx + 1 = Len(candidates) THEN "merge" ELSE "enrich"
    /\ UNCHANGED <<nonScanVars, pc, result>>

\* After the loop (lines 225-236): the chosen enrichment is merged into the
\* result, which is returned.
EnrichMerge ==
    /\ pc = "google"
    /\ gvpc = "merge"
    /\ result' = ApplyEnrichment(gvResult, chosen_enrichment)
    /\ pc' = "done"
    /\ gvpc' = "idle"
    /\ UNCHANGED <<nonScanVars, scanVars>>

EnrichNext == EnrichLookup \/ EnrichMerge

EnrichSpec == EnrichInit /\ [][EnrichNext]_vars

\* ------------------------------------------------------------------------
\* The plant re-route of _try_google_vision (classifier.py:191-203) as a
\* correction of the label-detection result, applied once and then once
\* more to its own outcome with the providers answering as before
\* ------------------------------------------------------------------------
\* the correction that keeps the corrected label next to the plant one
PlantReroute_Annotate(res, cands, details, r) ==
    IF any_plant(cands) /\ TruthyDict(r)
    THEN [MergeReroute(r, details) EXCEPT !.label = r.label \o " / " \o res.label]
    ELSE res

\* Lines 193-203: with a plant-like candidate and a plant-specialist result
\* r, that result (with the merged details) replaces res; otherwise res
\* stays.
PlantReroute(res, cands, details, r) ==
    IF any_plant(cands) /\ TruthyDict(r)
    THEN MergeReroute(r, details)
    ELSE res

RerouteInit ==
    /\ pc = "google"
    /\ entry = "_try_google_vision"
    /\ image_bytes = "jpeg"
    /\ PYTORCH_AVAILABLE = TRUE
    /\ PLANTNET_API_KEY \in {NoneStr, "key"}
    /\ MODELS = {}
    /\ TRANSFORMS = {}
    /\ LABELS = FALSE
    /\ pytorch_result = None
    /\ category = NoneStr
    /\ pytorch_error = NoneStr
    /\ log = <<>>
    /\ result = None
    /\ response = None
    /\ gvpc = "reroute"
    /\ gvSite = "stage3"
    /\ \E labels \in LabelSeqs \ {<<>>}, web \in WebResponses, aux \in AuxOutcomes :
        LET details == GetAdditionalVisionDetails(aux)
        IN  /\ candidates = WebCandidates(LabelCandidates(labels), web)
            /\ additional_details = details
            /\ gvResult = BaseResult(labels, details)
    /\ fieldIdx = 0
    /\ StepIdle

\* What a re-route step leaves alone.
nonRerouteVars == <<pc, entry, image_bytes, processVars, cacheVars, pytorch_result,
                    category, pytorch_error, response, gvSite, candidates, gvResult,
                    additional_details, fieldIdx, stepVars>>

\* The events of one _try_plantnet call from the re-route that returned r.
RerouteEvents(r) ==
    <<Ev("call", "_try_plantnet", "reroute", None)>>
        \o PlantnetRequests(PLANTNET_API_KEY, "reroute")
        \o <<Ev("ret", "_try_plantnet", "reroute", r)>>

\* Lines 191-203 on the label-detection result.
RerouteApply ==
    /\ pc = "google"
    /\ gvpc = "reroute"
    /\ IF any_plant(candidates)
       THEN \E resp \in PlantNetResponses :
            LET r == TryPlantnet(PLANTNET_API_KEY, resp)
            IN  /\ result' = PlantReroute(gvResult, candidates, additional_details, r)
                /\ log' = log \o RerouteEvents(r)
       ELSE /\ result' = PlantReroute(gvResult, candidates, additional_details, None)
            /\ log' = log
    /\ gvpc' = "rerouted"
    /\ UNCHANGED nonRerouteVars

\* Lines 191-203 once more, on the outcome of the first application; the
\* plant specialist answers what it answered the first time.
RerouteAgain ==
    /\ pc = "google"
    /\ gvpc = "rerouted"
    /\ IF any_plant(candidates)
       THEN \E resp \in PlantNetResponses :
            LET r == TryPlantnet(PLANTNET_API_KEY, resp)
            IN  /\ r = log[Len(log)].val
                /\ result' = PlantReroute(result, candidates, additional_details, r)
                /\ log' = log \o RerouteEvents(r)
       ELSE /\ result' = PlantReroute(result, candidates, additional_details, None)
            /\ log' = log
    /\ gvpc' = "again"
    /\ UNCHANGED nonRerouteVars

RerouteNext == RerouteApply \/ RerouteAgain

RerouteSpec == RerouteInit /\ [][RerouteNext]_vars

\* ------------------------------------------------------------------------
\* Properties
\* ------------------------------------------------------------------------
\* The request in flight went through backend/classifier.py's classify_image.
InClassifyImage ==
    /\ entry \in {"predict", "classify_from_url"}
    /\ pc \in {"ensemble", "route", "fallback", "google", "done", "responded"}
    /\ image_bytes # NoneStr
    /\ ~(entry = "predict" /\ image_bytes = "empty")

\* classify_image has returned.
Returned == InClassifyImage /\ pc \in {"done", "responded"}

\* Positions in the log of the calls of fn.
CallsOf(fn) == { i \in DOMAIN log : log[i].ev = "call" /\ log[i].fn = fn }

\* Positions in the log of the provider returns.
ProviderReturns ==
    { i \in DOMAIN log : log[i].ev = "ret" /\ log[i].fn \in {"_try_plantnet", "_try_google_vision"} }

\* A provider result is usable: label present, no error.
Usable(v) ==
    IF DOMAIN v = {} THEN FALSE
    ELSE v.label # NoneStr /\ v.label # "" /\ v.error = NoneStr

\* C1: when the image bytes are empty or undecodable, classify_image fails
\* with InvalidImage before any vision model is loaded or run and before any
\* provider is called: no load, inference or provider call is ever logged for
\* such a request, and it never returns a classification record.
C1_InvalidImageBeforeAnyCall ==
    (InClassifyImage /\ image_bytes \in {"garbage", "empty"})
        => /\ \A i \in DOMAIN log : log[i].ev \notin {"load", "infer", "call"}
           /\ pc \in {"done", "responded"} => "label" \notin DOMAIN result

\* C2: in one classify_image request the general-purpose provider is invoked
\* at most once.
C2_GeneralProviderAtMostOnce ==
    InClassifyImage => Cardinality(CallsOf("_try_google_vision")) <= 1

\* C3: in one classify_image request the plant specialist is invoked at most
\* once, the post-hoc re-route included.
C3_PlantSpecialistAtMostOnce ==
    InClassifyImage => Cardinality(CallsOf("_try_plantnet")) <= 1

\* C4: if every provider attempted in the request yielded no usable result,
\* classify_image returns the terminal result with label = null and error
\* exactly "no provider could classify the image".
C4_TerminalResult ==
    (Returned /\ \A i \in ProviderReturns : ~Usable(log[i].val))
        => /\ "label" \in DOMAIN result
           /\ result.label = NoneStr
           /\ result.error = "no provider could classify the image"

\* The ensemble failed in one of the ways C5 names: the identifier module is
\* unavailable, no model loaded, or no model produced a score.
EnsembleFailed ==
    /\ InClassifyImage
    /\ pc # "ensemble"
    /\ \/ ~PYTORCH_AVAILABLE
       \/ pytorch_error \in {"Failed to load any ensemble models",
                             "No models produced valid predictions"}

\* C5: when the ensemble fails, classify_image does not abort: there is no
\* category hint, the plant specialist is not called in stage 1, the
\* general-purpose provider is invoked before the request ends, and the
\* caller gets a result record.
C5_EnsembleFailureFallsBack ==
    EnsembleFailed
        => /\ category = NoneStr
           /\ \A i \in CallsOf("_try_plantnet") : log[i].site # "stage1"
           /\ pc \in {"google", "done", "responded"}
                => \E i \in CallsOf("_try_google_vision") : log[i].site = "stage3"
           /\ pc \in {"done", "responded"}
                => /\ {"label", "error"} \subseteq DOMAIN result
                   /\ result.error \notin {"Failed to load any ensemble models",
                                           "No models produced valid predictions"}

C5_Witness ==
    /\ pc = "done"
    /\ EnsembleFailed
    /\ pytorch_error = "Failed to load any ensemble models"
    /\ result.source = "google_vision_labels"

\* The plant specialist's stage-1 return, when the request has one.
Stage1Returns ==
    { i \in DOMAIN log : log[i].ev = "ret" /\ log[i].fn = "_try_plantnet" /\ log[i].site = "stage1" }

\* The decision was plant, the specialist returned a usable result in stage 1
\* and classify_image has returned.
Stage1Success ==
    /\ Returned
    /\ category = "plant"
    /\ \E i \in Stage1Returns : Usable(log[i].val)

\* The name fields of the specialist's top result, in the order the adapter
\* prefers them.
SpecialistNames(top) ==
    <<top.species.scientificName,
      IF top.species.commonNames = <<>> THEN NoneStr ELSE top.species.commonNames[1],
      top.speciesName,
      top.suggested_common_name>>

\* C6 as stated: on a usable stage-1 specialist result, classify_image
\* returns it at once with source "plantnet" and label equal to the
\* specialist's scientific name; the general-purpose provider and the
\* enrichment lookup are not called.
C6_ReturnsScientificName ==
    Stage1Success
        => /\ \E i \in Stage1Returns : result = log[i].val
           /\ result.source = "plantnet"
           /\ result.label = result.raw.results[1].species.scientificName
           /\ CallsOf("_try_google_vision") = {}
           /\ \A i \in DOMAIN log : log[i].ev # "enrich"

\* C6 amended: the label is the first name present among the specialist's
\* scientific name, first common name, speciesName and
\* suggested_common_name; the rest as stated.
C6_ReturnsFirstPresentName ==
    Stage1Success
        => /\ \E i \in Stage1Returns : result = log[i].val
           /\ result.source = "plantnet"
           /\ LET names == SpecialistNames(result.raw.results[1])
              IN  \E k \in 1..Len(names) :
                    /\ result.label = names[k]
                    /\ names[k] \notin {NoneStr, ""}
                    /\ \A j \in 1..(k - 1) : names[j] \in {NoneStr, ""}
           /\ CallsOf("_try_google_vision") = {}
           /\ \A i \in DOMAIN log : log[i].ev # "enrich"

C6_Witness ==
    /\ Stage1Success
    /\ result.label = "China rose"
    /\ result.raw.results[1].species.scientificName = NoneStr

\* C7: every result classify_image returns with error = null has a label,
\* and a specialist response without any name field is inconclusive: the
\* router goes on to the general-purpose provider.
C7_UsableOrInconclusive ==
    Returned
        => /\ result.error = NoneStr => result.label \notin {NoneStr, ""}
           /\ (\E i \in Stage1Returns :
                    /\ DOMAIN log[i].val # {}
                    /\ log[i].val.label = NoneStr)
                => CallsOf("_try_google_vision") # {}

\* A plant keyword occurs in the lower-cased text of some candidate.
PlantKeywordIn(cands) ==
    \E i \in DOMAIN cands, k \in plant_keywords :
        LET txt == Chars(cands[i])
            kc == Chars(k)
        IN  \E off \in 0..(Len(txt) - Len(kc)) :
                \A j \in 1..Len(kc) : LowerChar(txt[off + j]) = kc[j]

\* The log entries a step appends.
NewEntries == { i \in DOMAIN log' : i > Len(log) }

\* C8: once label detection has returned a label, the plant specialist is
\* called from inside the general provider exactly when a plant keyword
\* occurs in the candidate text; a non-null specialist result is then what
\* the general provider returns; with no keyword the step makes no call and
\* the general provider's own result goes on to enrichment.
C8_PostHocReroute ==
    [][ LET rerouteCalls == { i \in NewEntries : /\ log'[i].ev = "call"
                                                 /\ log'[i].fn = "_try_plantnet"
                                                 /\ log'[i].site = "reroute" }
            rerouteRets == { i \in NewEntries : /\ log'[i].ev = "ret"
                                                /\ log'[i].fn = "_try_plantnet"
                                                /\ log'[i].site = "reroute" }
            atReroute == pc = "google" /\ gvpc = "reroute"
        IN  /\ rerouteCalls # {} <=> (atReroute /\ PlantKeywordIn(candidates))
            /\ \A i \in rerouteRets :
                 IF DOMAIN log'[i].val # {}
                 THEN /\ log'[Len(log')].ev = "ret"
                      /\ log'[Len(log')].fn = "_try_google_vision"
                      /\ log'[Len(log')].val.source = "plantnet"
                      /\ log'[Len(log')].val.label = log'[i].val.label
                      /\ log'[Len(log')].val.raw = log'[i].val.raw
                      /\ pc' = "done"
                      /\ result' = log'[Len(log')].val
                 ELSE gvpc' = "enrich" /\ gvResult' = gvResult
            /\ (atReroute /\ ~PlantKeywordIn(candidates))
                 => /\ log' = log
                    /\ gvpc' = "enrich"
                    /\ gvResult' = gvResult
                    /\ gvResult.source = "google_vision_labels"
      ]_vars

C8_Witness ==
    /\ Returned
    /\ category = "animal"
    /\ result.source = "plantnet"
    /\ \E i \in CallsOf("_try_plantnet") : log[i].site = "reroute"

\* C9: when the re-route returns the specialist's result, every auxiliary
\* detail the general provider gathered is in the returned result's
\* additional details.
C9_AuxDetailsMerged ==
    [][ (/\ pc = "google"
         /\ gvpc = "reroute"
         /\ gvpc' = "idle"
         /\ DOMAIN log'[Len(log')].val # {})
            => LET ret == log'[Len(log')].val
               IN  DOMAIN additional_details \subseteq
                     (IF "additional_details" \in DOMAIN ret
                      THEN DOMAIN ret.additional_details ELSE {})
      ]_vars

CanonicalFields == {"label", "confidence", "source", "error"}

\* C10 as stated: every value a classify_image or classify_from_url returns,
\* in either variant, carries label, confidence, source and error.
C10_AllReturnsCanonical ==
    pc = "done" => CanonicalFields \subseteq DOMAIN result

\* C10 amended: every value returned by backend/classifier.py's
\* classify_image and classify_from_url carries label, confidence, source
\* and error; the legacy variant's classify_image returns label, confidence
\* and raw only.
C10_MainReturnsCanonical ==
    pc = "done"
        => IF entry = "legacy_classify_image"
           THEN DOMAIN result = {"label", "confidence", "raw"}
           ELSE CanonicalFields \subseteq DOMAIN result

C10_Witness ==
    /\ pc = "done"
    /\ entry = "classify_from_url"
    /\ image_bytes = "jpeg"
    /\ result.source = "google_vision + wikipedia"
    /\ "enrichment" \in DOMAIN result

\* ------------------------------------------------------------------------
\* Properties of the scorer and the aggregator
\* ------------------------------------------------------------------------
RECURSIVE SumSeq(_)
SumSeq(q) == IF q = <<>> THEN 0 ELSE Head(q) + SumSeq(Tail(q))

\* classify_image_source went through its model loop and the aggregation
\* returned a decision for the recorded per-model scores.
Aggregated ==
    /\ entry = "classify_image_source"
    /\ pc = "route"
    /\ DOMAIN pytorch_result # {}

\* The recorded evidence: the sums of the per-model plant and animal scores
\* (the averages are these sums over the same number of models).
PlantSum == SumSeq(ensemble_scores.plant_scores)
AnimalSum == SumSeq(ensemble_scores.animal_scores)

\* C11: the decision is plant exactly when the normalized plant score
\* plant / (plant + animal) is at least 1/2 (1/2 by default when there is no
\* evidence) and animal otherwise; the confidence is the larger of
\* plant_norm and 1 - plant_norm; decision and confidence are these fixed
\* functions of the per-model scores on every call, so a tie gives plant
\* with confidence 1/2 each time.
C11_DecisionRule ==
    Aggregated
        => LET total == PlantSum + AnimalSum
               pn == IF total > 0 THEN PlantSum ELSE 1
               pd == IF total > 0 THEN total ELSE 2
               conf == pytorch_result.confidence
           IN  /\ pytorch_result.decision = "plant" <=> 2 * pn >= pd
               /\ pytorch_result.decision = "animal" <=> 2 * pn < pd
               /\ conf[2] > 0
               /\ conf[1] * pd = conf[2] * (IF pn >= pd - pn THEN pn ELSE pd - pn)
               /\ 2 * pn = pd => pytorch_result.decision = "plant" /\ 2 * conf[1] = conf[2]

C11_Witness ==
    /\ Aggregated
    /\ PlantSum = AnimalSum
    /\ PlantSum > 0
    /\ Len(ensemble_scores.plant_scores) = 2
    /\ ensemble_scores.plant_scores[1] # ensemble_scores.animal_scores[1]
    /\ pytorch_result.decision = "plant"

\* C12: for a non-empty list of per-model scores the aggregated confidence
\* lies in [0.5, 1.0].
C12_ConfidenceRange ==
    (Aggregated /\ Len(ensemble_scores.plant_scores) >= 1)
        => LET conf == pytorch_result.confidence
           IN  /\ conf[2] > 0
               /\ 2 * conf[1] >= conf[2]
               /\ conf[1] <= conf[2]

C12_Witness ==
    /\ Aggregated
    /\ Len(ensemble_scores.plant_scores) = 3
    /\ PlantSum = 0
    /\ AnimalSum > 0
    /\ pytorch_result.confidence[1] = pytorch_result.confidence[2]

\* The model loop is over and the aggregation has run.
LoopOver == entry = "classify_image_source" /\ pc = "route"

\* C13: when no model produced a score (each one raised or was skipped) the
\* aggregation fails with an error and produces no decision and no
\* confidence; a decision always rests on at least one model's scores.
C13_EmptyFails ==
    LoopOver
        => /\ ensemble_scores.plant_scores = <<>>
                => /\ pytorch_result = None
                   /\ pytorch_error # NoneStr
                   /\ category = NoneStr
           /\ DOMAIN pytorch_result # {}
                => /\ ensemble_scores.plant_scores # <<>>
                   /\ pytorch_result.ensemble_accuracy.num_models >= 1

C13_Witness ==
    /\ LoopOver
    /\ MODELS = ModelNames
    /\ TRANSFORMS # ModelNames
    /\ ensemble_scores.plant_scores = <<>>
    /\ pytorch_error = "No models produced valid predictions"

\* The labels of the top-k lists and, for each, which keyword tiers occur
\* in its lower-cased text.
Vocabulary == KeywordLabels \cup {NeutralLabel, "unknown"}
Matches ==
    [l \in Vocabulary |->
        LET txt == Lower(Chars(l))
        IN  [plant_primary |-> AnyKeywordIn(txt, PLANT_KEYWORDS_PRIMARY),
             plant_secondary |-> AnyKeywordIn(txt, PLANT_KEYWORDS_SECONDARY),
             animal_primary |-> AnyKeywordIn(txt, ANIMAL_KEYWORDS_PRIMARY),
             animal_secondary |-> AnyKeywordIn(txt, ANIMAL_KEYWORDS_SECONDARY)]]

NoKeyword(l) ==
    /\ ~Matches[l].plant_primary
    /\ ~Matches[l].plant_secondary
    /\ ~Matches[l].animal_primary
    /\ ~Matches[l].animal_secondary

\* The models whose scores are recorded.
Scored == 1..Len(ensemble_scores.all_predictions)

\* C14: for every top-k list the scorer's plant and animal scores are not
\* negative, and a list none of whose labels contains a keyword scores
\* exactly (0, 0).
C14_ScoresNonNegative ==
    \A i \in Scored :
        LET preds == ensemble_scores.all_predictions[i]
        IN  /\ Len(preds) = topk
            /\ ensemble_scores.plant_scores[i] >= 0
            /\ ensemble_scores.animal_scores[i] >= 0
            /\ (\A r \in 1..Len(preds) : NoKeyword(preds[r].label))
                  => /\ ensemble_scores.plant_scores[i] = 0
                     /\ ensemble_scores.animal_scores[i] = 0

C14_Witness ==
    /\ Len(ensemble_scores.all_predictions) = 2
    /\ \A r \in 1..topk : ensemble_scores.all_predictions[1][r].label = "unknown"
    /\ ensemble_scores.plant_scores[1] = 0
    /\ ensemble_scores.animal_scores[1] = 0
    /\ ensemble_scores.all_predictions[2][5].label = "leaf beetle"
    /\ ensemble_scores.plant_scores[2] > 0
    /\ ensemble_scores.animal_scores[2] > 0

\* What the claim's rule adds for one prediction, in ten-thousandths:
\* p (hundredths) * (1.0 - 0.2 * r) (tenths) * 1.5 or 1.0 (tenths), the
\* primary tier when it matches and the secondary tier only otherwise.
RuleAdds(prob, r, primary, secondary) ==
    IF primary THEN prob * (10 - 2 * r) * 15
    ELSE IF secondary THEN prob * (10 - 2 * r) * 10
    ELSE 0

RECURSIVE RuleScore(_, _, _)
RuleScore(preds, r, cat) ==
    IF r >= Len(preds) THEN 0
    ELSE LET m == Matches[preds[r + 1].label]
         IN  (IF cat = "plant"
              THEN RuleAdds(preds[r + 1].probability, r, m.plant_primary, m.plant_secondary)
              ELSE RuleAdds(preds[r + 1].probability, r, m.animal_primary, m.animal_secondary))
             + RuleScore(preds, r + 1, cat)

\* C20: a model's plant score is the sum over its predictions of
\* p * (1.0 - 0.2 * r) * 1.5 where the label contains a primary plant
\* keyword, of p * (1.0 - 0.2 * r) * 1.0 where it contains only a secondary
\* one, and of nothing otherwise; its animal score likewise with the animal
\* keywords, independently of the plant score (scores are thousandths, the
\* rule's sums ten-thousandths).
C20_TieredContributions ==
    \A i \in Scored :
        LET preds == ensemble_scores.all_predictions[i]
        IN  /\ 10 * ensemble_scores.plant_scores[i] = RuleScore(preds, 0, "plant")
            /\ 10 * ensemble_scores.animal_scores[i] = RuleScore(preds, 0, "animal")

\* "cabbage butterfly" (secondary plant keyword cabbage; primary animal
\* keyword butterfly and secondary fly) at rank 1 with probability 0.25:
\* 0.25 * 0.8 * 1.0 = 0.2 for plant and 0.25 * 0.8 * 1.5 = 0.3 for animal.
C20_Witness ==
    /\ Len(ensemble_scores.all_predictions) >= 1
    /\ ensemble_scores.all_predictions[1] = OneKeywordList("cabbage butterfly", 1)
    /\ ensemble_scores.plant_scores[1] = 200
    /\ ensemble_scores.animal_scores[1] = 300

\* classify_image holds an ensemble result that rests on no keyword
\* evidence: the average plant and animal scores are both 0.
ZeroEvidence ==
    /\ InClassifyImage
    /\ pc = "route"
    /\ DOMAIN pytorch_result # {}
    /\ pytorch_result.ensemble_accuracy.plant_score[1] = 0
    /\ pytorch_result.ensemble_accuracy.animal_score[1] = 0

\* C19: when no model's top-k labels match a keyword, the confidence is 1/2
\* (both normalized scores default to 1/2), the decision is plant, and
\* classify_image's next step is the stage-1 call of the plant specialist,
\* before any call of the general-purpose provider.
C19_ZeroEvidenceRoutesToPlant ==
    [][ ZeroEvidence
          => /\ pytorch_result.decision = "plant"
             /\ 2 * pytorch_result.confidence[1] = pytorch_result.confidence[2]
             /\ category = "plant"
             /\ CallsOf("_try_plantnet") \cup CallsOf("_try_google_vision") = {}
             /\ Len(log') > Len(log)
             /\ log'[Len(log) + 1].ev = "call"
             /\ log'[Len(log) + 1].fn = "_try_plantnet"
             /\ log'[Len(log) + 1].site = "stage1"
      ]_vars

C19_Witness ==
    /\ ZeroEvidence
    /\ pytorch_result.ensemble_accuracy.num_models = 3
    /\ category = "plant"
    /\ PLANTNET_API_KEY = "key"

\* Positions in the log where classify_image is entered.
Entries == { i \in DOMAIN log : log[i].ev = "enter" /\ log[i].fn = "classify_image" }

\* The request is a classify_from_url whose download did not give a 200
\* response (a transport exception or another status).
DownloadFailed ==
    /\ entry = "classify_from_url"
    /\ log # <<>>
    /\ log[1].ev = "download"
    /\ ~log[1].val

\* C15: classify_from_url returns a record on every path; on a download
\* failure the record has label = null and an error, and neither
\* classify_image, the ensemble nor a provider is invoked; after a successful
\* download classify_image is called exactly once, and what it returns is
\* returned.
C15_DownloadFailureIsAResult ==
    entry = "classify_from_url"
        => /\ log # <<>> /\ log[1].ev = "download"
           /\ DownloadFailed
                => /\ Len(log) = 1
                   /\ pc = "done"
                   /\ result.label = NoneStr
                   /\ result.error # NoneStr
           /\ ~DownloadFailed
                => /\ Cardinality(Entries) = 1
                   /\ Len(log) >= 2 /\ log[2].ev = "enter"
           /\ pc = "done" => {"label", "error"} \subseteq DOMAIN result

C15_Witness ==
    /\ DownloadFailed
    /\ pc = "done"
    /\ result.error = "Failed to download image: 404"
    /\ PYTORCH_AVAILABLE

\* C16: each model's weights are loaded at most once, also when several
\* first requests call _get_model_bundle concurrently.
C16_AtMostOneLoadPerModel ==
    \A m \in ModelNames : load_count[m] <= 1

\* ------------------------------------------------------------------------
\* Properties of the enrichment scan and merge
\* ------------------------------------------------------------------------
\* A present (non-null, non-empty) text.
Present(s) == s \notin {NoneStr, ""}

\* The merge has run on the scan's outcome.
Merged == entry = "_try_google_vision" /\ pc = "done"

\* C17: with a chosen enrichment the returned label is
\* "{scientific_name} ({page_title})" when both are present, the scientific
\* name alone when there is no title, the page title when there is no
\* scientific name, and the primary label when there is neither; the source
\* then records the enrichment and the confidence is the primary one.
\* Without a chosen enrichment the primary result is returned as it is.
C17_LabelOverride ==
    Merged
        => IF DOMAIN chosen_enrichment = {} THEN result = gvResult
           ELSE LET sci == chosen_enrichment.scientific_name
                    title == chosen_enrichment.page_title
                IN  /\ (Present(sci) /\ Present(title))
                          => result.label = sci \o " (" \o title \o ")"
                    /\ (Present(sci) /\ ~Present(title)) => result.label = sci
                    /\ (~Present(sci) /\ Present(title)) => result.label = title
                    /\ (~Present(sci) /\ ~Present(title)) => result.label = gvResult.label
                    /\ result.source = "google_vision + wikipedia"
                    /\ result.source # gvResult.source
                    /\ result.confidence = gvResult.confidence
                    /\ result.enrichment = chosen_enrichment

C17_Witness ==
    /\ Merged
    /\ gvResult.label = "Bird"
    /\ chosen_enrichment # None
    /\ chosen_enrichment.scientific_name = "Rosa"
    /\ chosen_enrichment.page_title = "Rose"
    /\ result.label = "Rosa (Rose)"
    /\ result.confidence = 95

\* The lookup result ends the scan: it has a scientific name, or its page
\* title contains a space or an opening parenthesis.
Stops(e) ==
    /\ DOMAIN e # {}
    /\ \/ Present(e.scientific_name)
       \/ \E k \in DOMAIN Chars(e.page_title) : Chars(e.page_title)[k] \in {" ", "("}

\* The lookups that returned something, by position.
Successful == { i \in DOMAIN lookups : DOMAIN lookups[i].enrich # {} }

\* C18: the candidates are looked up in list order; no candidate is looked
\* up after one whose result ends the scan, and that result is the chosen
\* enrichment; when no result ends the scan every candidate is looked up and
\* the chosen enrichment is the first successful lookup in list order, or
\* none when no lookup succeeded.
C18_ScanOrder ==
    entry = "_try_google_vision"
        => LET n == Len(lookups)
           IN  /\ n = scan_idx
               /\ n <= Len(candidates)
               /\ \A i \in 1..n : lookups[i].label = candidates[i]
               /\ \A i \in 1..(n - 1) : ~Stops(lookups[i].enrich)
               /\ gvpc = "enrich"
                    => /\ n < Len(candidates)
                       /\ n > 0 => ~Stops(lookups[n].enrich)
               /\ gvpc # "enrich"
                    => IF n > 0 /\ Stops(lookups[n].enrich)
                       THEN chosen_enrichment = lookups[n].enrich
                       ELSE /\ n = Len(candidates)
                            /\ IF Successful = {} THEN chosen_enrichment = None
                               ELSE \E i \in Successful :
                                       /\ \A j \in Successful : i <= j
                                       /\ chosen_enrichment = lookups[i].enrich

C18_Witness ==
    /\ entry = "_try_google_vision"
    /\ gvpc = "merge"
    /\ Len(lookups) = 3
    /\ lookups[1].enrich = None
    /\ lookups[2].enrich # None
    /\ lookups[3].enrich # None
    /\ lookups[3].enrich # lookups[2].enrich
    /\ chosen_enrichment = lookups[2].enrich

\* ------------------------------------------------------------------------
\* Properties of the model loop
\* ------------------------------------------------------------------------
\* The models run in this call, those that produced a score and those whose
\* inference raised.
ModelRuns == { i \in DOMAIN log : log[i].ev = "scored" }
Produced == { i \in ModelRuns : log[i].val }
Raised == { i \in ModelRuns : ~log[i].val }

\* C21: a model whose inference raises is left out and the prediction goes
\* on: when at least one model produced a score a result is returned, its
\* averages are the sums of the recorded scores over the number of models
\* that produced a score, and num_models is that number.
C21_FailedModelsAbsent ==
    LoopOver
        => LET n == Cardinality(Produced)
           IN  /\ Len(ensemble_scores.plant_scores) = n
               /\ Len(ensemble_scores.animal_scores) = n
               /\ n >= 1
                    => /\ DOMAIN pytorch_result # {}
                       /\ pytorch_error = NoneStr
                       /\ pytorch_result.ensemble_accuracy.num_models = n
                       /\ pytorch_result.ensemble_accuracy.plant_score = <<PlantSum, n>>
                       /\ pytorch_result.ensemble_accuracy.animal_score = <<AnimalSum, n>>

C21_Witness ==
    /\ LoopOver
    /\ Cardinality(ModelRuns) = 3
    /\ Cardinality(Raised) = 1
    /\ log[1].val = FALSE
    /\ PlantSum > 0
    /\ pytorch_result.ensemble_accuracy.num_models = 2
    /\ pytorch_result.ensemble_accuracy.plant_score = <<PlantSum, 2>>

\* ------------------------------------------------------------------------
\* Properties of the general provider
\* ------------------------------------------------------------------------
\* C22: when every candidate's lookup raises or returns nothing, the
\* label-detection result is still returned: its label is the top label,
\* its confidence the top label's score, its source "google_vision_labels",
\* its error null, and it has no enrichment field.
C22_MissingEnrichmentNonFatal ==
    (Merged /\ Successful = {})
        => /\ Len(lookups) = Len(candidates)
           /\ DOMAIN result # {}
           /\ result.label = gvResult.all_labels[1].description
           /\ result.confidence = gvResult.all_labels[1].score
           /\ result.source = "google_vision_labels"
           /\ result.error = NoneStr
           /\ "enrichment" \notin DOMAIN result

C22_Witness ==
    /\ Merged
    /\ Len(lookups) = 3
    /\ Successful = {}
    /\ \A i \in DOMAIN lookups : lookups[i].enrich = None
    /\ result.label = "Bird"
    /\ result.source = "google_vision_labels"

\* The HTTP requests of the plant specialist, by position in the log.
PlantnetPosts == { i \in DOMAIN log : log[i].ev = "http" /\ log[i].fn = "requests.post" }

\* Positions in the log of the returns of fn.
RetsOf(fn) == { i \in DOMAIN log : log[i].ev = "ret" /\ log[i].fn = fn }

\* C23: without a plant-specialist key every call of the plant specialist
\* returns null (it returns, it does not raise) and makes no HTTP request,
\* and the router goes on from a stage-1 call to the fallback call of the
\* general provider.
C23_NoKeyFallsThrough ==
    (InClassifyImage /\ PLANTNET_API_KEY = NoneStr)
        => /\ PlantnetPosts = {}
           /\ Cardinality(RetsOf("_try_plantnet")) = Cardinality(CallsOf("_try_plantnet"))
           /\ \A i \in CallsOf("_try_plantnet") :
                 /\ i + 1 \in RetsOf("_try_plantnet")
                 /\ log[i + 1].val = None
           /\ (\E i \in CallsOf("_try_plantnet") : log[i].site = "stage1")
                 => \/ pc = "fallback"
                    \/ \E j \in CallsOf("_try_google_vision") : log[j].site = "stage3"

C23_Witness ==
    /\ InClassifyImage
    /\ PLANTNET_API_KEY = NoneStr
    /\ category = "plant"
    /\ \E i \in CallsOf("_try_plantnet") : log[i].site = "stage1" /\ log[i + 1].val = None
    /\ \E j \in CallsOf("_try_google_vision") : log[j].site = "stage3"
    /\ pc = "done"
    /\ DOMAIN result # {}
    /\ result.source = "google_vision_labels"

Loading(t) == tpc[t].at \in {"labels", "construct", "insert_model", "insert_transform", "finish"}

\* C25: no caller observes a partially initialised bundle: the model set a
\* caller has been handed, and iterates, is not a strict subset of what a
\* load in progress ends up caching, so it does not grow while the caller
\* holds it.
C25_NoPartialBundle ==
    [][ \A t \in Threads :
            (tpc[t].at = "returned" /\ \E u \in Threads \ {t} : Loading(u))
                => MODELS' = MODELS ]_vars

\* ------------------------------------------------------------------------
\* Properties of the general provider's detection stages
\* ------------------------------------------------------------------------
StageOrder ==
    <<"label_detection", "object_localization", "landmark_detection", "web_detection">>

\* Where the general provider's call at log position i ends: its return, or
\* the end of the log while it is running.
SegEnd(i) ==
    LET rets == { j \in RetsOf("_try_google_vision") : j > i }
    IN  IF rets = {} THEN Len(log) + 1
        ELSE CHOOSE j \in rets : \A k \in rets : j <= k

\* The detections run by the call at i, and what it did after a detection:
\* the plant re-route and the enrichment.
StagesIn(i) == { k \in (i + 1)..(SegEnd(i) - 1) : log[k].ev = "stage" }
PostIn(i) ==
    { k \in (i + 1)..(SegEnd(i) - 1) :
        \/ log[k].ev = "enrich"
        \/ log[k].ev = "call" /\ log[k].fn = "_try_plantnet" }

\* The source field of a result by the detection it comes from.
StageSources ==
    [label_detection |-> {"google_vision_labels", "google_vision + wikipedia", "plantnet"},
     object_localization |-> {"google_vision_objects"},
     landmark_detection |-> {"google_vision_landmark"},
     web_detection |-> {"google_vision_web"}]

\* C26: the general provider runs label detection, object localization,
\* landmark detection and web best-guess in this order; it goes on to the
\* next detection only when the one before yielded no label, and what it
\* returns comes from the first detection that yielded one; the plant
\* re-route and the enrichment are applied only after a label detection
\* that yielded; when no detection yielded, or one raised, it returns null.
C26_StageOrder ==
    \A i \in CallsOf("_try_google_vision") :
        LET stages == StagesIn(i)
            n == Cardinality(stages)
            nth(k) == Cardinality({ m \in stages : m <= k })
            yielded == { k \in stages : log[k].val # NoneStr }
            returned == SegEnd(i) <= Len(log)
        IN  /\ n <= Len(StageOrder)
            /\ \A k \in stages :
                 /\ log[k].fn = StageOrder[nth(k)]
                 /\ k \in yielded => nth(k) = n
            /\ PostIn(i) # {}
                 => \E k \in yielded :
                       /\ log[k].fn = "label_detection"
                       /\ \A m \in PostIn(i) : m > k
            /\ returned
                 => LET v == log[SegEnd(i)].val
                    IN  IF yielded = {} THEN v = None
                        ELSE \A k \in yielded :
                                /\ DOMAIN v # {}
                                /\ v.error = NoneStr
                                /\ v.source \in StageSources[log[k].fn]
                                /\ log[k].fn # "label_detection" => v.label = log[k].val

C26_Witness ==
    /\ InClassifyImage
    /\ pc = "done"
    /\ \E i \in CallsOf("_try_google_vision") :
          /\ Cardinality(StagesIn(i)) = 2
          /\ log[SegEnd(i)].val = None
    /\ \E i \in CallsOf("_try_google_vision") :
          /\ Cardinality(StagesIn(i)) = 3
          /\ DOMAIN result # {}
          /\ result.source = "google_vision_landmark"
          /\ result = log[SegEnd(i)].val

\* ------------------------------------------------------------------------
\* Properties of the model cache across sequential calls
\* ------------------------------------------------------------------------
\* The loads a step adds to the log.
NewLoads == { i \in NewEntries : log'[i].ev = "load" }

====
